---------------------------- MODULE Spec2Model ----------------------------
(***************************************************************************)
(* LolRemez: the Remez exchange engine (remez_solver), its worker pool and *)
(* the part of main() that drives it.                                      *)
(*                                                                         *)
(* lol::real is modelled as a fixed-point number: an integer count of      *)
(* 1/Scale units, kept within [-MaxReal, MaxReal].  The internal interval  *)
(* [-1, 1] is [-Scale, Scale].  A quotient is rounded down to the grid;    *)
(* the quotient by zero, which lol::real defines outside this repository,  *)
(* is any of DivZeroValues.                                                *)
(***************************************************************************)
EXTENDS Integers, Sequences, FiniteSets, TLC

(***************************************************************************)
(* Bounds of the model.                                                    *)
(***************************************************************************)
Scale == 4
MaxReal == 24
MaxIter == 2

(***************************************************************************)
(* Program constants.                                                      *)
(***************************************************************************)
NumWorkers == 4
ExtremaTagBase == 1000
TagLimit == 2000
QuitTag == -1

Workers == 1..NumWorkers

\* The inputs main() hands to the solver: -d, the root finder, f.
Orders == {1}
RootFinders == {"bisect", "regula_falsi", "illinois", "pegasus", "ford"}

(***************************************************************************)
(* Fixed-point arithmetic standing for lol::real.                          *)
(***************************************************************************)
Abs(v) == IF v < 0 THEN -v ELSE v

Max(S) == CHOOSE m \in S : \A v \in S : v <= m

Sign(v) == IF v > 0 THEN 1 ELSE IF v < 0 THEN -1 ELSE 0

Sat(v) == IF v > MaxReal THEN MaxReal ELSE IF v < -MaxReal THEN -MaxReal ELSE v

DivZeroValues == {-MaxReal, 0, MaxReal}

\* p / q rounded down to the grid; z is the value a quotient by zero takes.
Div(p, q, z) ==
    IF q = 0 THEN z
    ELSE IF q > 0 THEN p \div q
    ELSE (-p) \div (-q)

\* rand(0.4f, 0.6f): the fractions the model draws the tie-breaker from.
RandFractions == {<<2, 5>>, <<3, 5>>}

(***************************************************************************)
(* The function to approximate and the polynomial estimates.  f is given   *)
(* in units of 1/Scale^2 on an argument in units of 1/Scale.  The linear   *)
(* solves of remez_init and remez_step are not carried out: each yields    *)
(* one of Estimates, a coefficient list c0, c1, ...                        *)
(***************************************************************************)
Funcs == {"sqr"}

\* "sqr" is x*x, "affine" is 0.5 + 0.1875*x, which a polynomial of degree 1
\* fits exactly, and anything else is x*x*x.
ApplyFunc(f, v) ==
    IF f = "sqr" THEN Sat(v * v)
    ELSE IF f = "affine" THEN Sat(8 + (3 * v) \div Scale)
    ELSE Sat((v * v * v) \div Scale)

Poly(order, c0, c1) ==
    [k \in 1..(order + 1) |-> IF k = 1 THEN c0 ELSE IF k = 2 THEN c1 ELSE 0]

InitEstimates(order) == {Poly(order, 8, 0)}
StepEstimates(order) == {Poly(order, 8, 0), Poly(order, 8, 3), Poly(order, 4, 0)}

(***************************************************************************)
(* expression: the parser.  A text is a sequence of tokens; the blanks the *)
(* grammar skips between them (_ and pad) are left out.  One token stands  *)
(* for each class of the grammar's terminals: the numbers "1" and "2", the *)
(* names x, y and pi, the unary function sin, the binary function pow, the *)
(* superscript digit "sup2".  A parser state st is the input position and  *)
(* the expression's members; pegtl applies a rule's action as soon as the  *)
(* rule has matched and undoes nothing when an enclosing rule then fails.  *)
(***************************************************************************)
NameTokens == {"x", "y", "1", "2", "4", "5", "pi"}
UnaryFuns == {"sin"}
BinaryFuns == {"pow"}
PowTokens == {"^", "**"}
SupTokens == {"sup2"}
\* The value a name or a number stands for, on the grid.
ConstValue(s) ==
    CASE s = "1"  -> Scale
      [] s = "2"  -> 2 * Scale
      [] s = "4"  -> 4 * Scale
      [] s = "5"  -> 5 * Scale
      [] s = "pi" -> (355 * Scale) \div 113
      [] OTHER    -> 0

Tok(t, st) == IF st.pos <= Len(t) THEN t[st.pos] ELSE "eof"

Failed(st) == [st EXCEPT !.ok = FALSE]

Advance(st) == [st EXCEPT !.pos = @ + 1]

\* The next alternative of a sor, or the end of a star or opt: the input is
\* rewound to where st was, what the actions did stays.
Rewind(failed, st) == [failed EXCEPT !.ok = TRUE, !.pos = st.pos]

\* generic_action<OP>::apply0
Emit(st, op) == [st EXCEPT !.ops = Append(@, <<op, -1>>)]

\* One token c, as one<c>.
One(t, st, c) == IF st.ok /\ Tok(t, st) = c THEN Advance(st) ELSE Failed(st)

EmitConstant(st, v) ==
    [st EXCEPT !.ops = Append(@, <<"constant", Len(st.consts)>>),
               !.consts = Append(@, v)]

\* action<r_name>
NameAction(st, s) ==
    IF s = "x" THEN Emit(st, "x")
    ELSE IF s = "y" THEN Emit(st, "y")
    ELSE EmitConstant(st, ConstValue(s))

R_name(t, st) ==
    IF Tok(t, st) \in NameTokens
    THEN NameAction(Advance(st), Tok(t, st))
    ELSE Failed(st)

\* plus<r_sup_digit>, and action<r_sup_float>: val = val * 10 + digit.
RECURSIVE SupDigits(_, _, _)
SupDigits(t, st, val) ==
    IF Tok(t, st) \in SupTokens
    THEN SupDigits(t, Advance(st), val * 10 + 2)
    ELSE [st |-> st, val |-> val]

R_sup_float(t, st) ==
    IF Tok(t, st) \in SupTokens
    THEN LET r == SupDigits(t, st, 0)
         IN  Emit(EmitConstant(r.st, r.val * Scale), "pow")
    ELSE Failed(st)

\* action<r_unary_fun>, action<r_unary_call>
PushTempOp(st, f) == [st EXCEPT !.temp = Append(@, f)]

PopTempOp(st) ==
    [st EXCEPT !.ops = Append(@, <<st.temp[Len(st.temp)], -1>>),
               !.temp = SubSeq(@, 1, Len(@) - 1)]

\* A rule matched by its name, as the grammar's rules name one another.
RECURSIVE Match(_, _, _)

R_binary_call(t, st) ==
    IF Tok(t, st) \in BinaryFuns
    THEN LET f == Tok(t, st)
             a == Match("r_expr", t, One(t, Advance(st), "("))
             b == Match("r_expr", t, One(t, a, ","))
             c == One(t, b, ")")
         IN  IF c.ok THEN Emit(c, f) ELSE c
    ELSE Failed(st)

R_unary_call(t, st) ==
    IF Tok(t, st) \in UnaryFuns
    THEN LET a == Match("r_expr", t, One(t, PushTempOp(Advance(st), Tok(t, st)), "("))
             c == One(t, a, ")")
         IN  IF c.ok THEN PopTempOp(c) ELSE c
    ELSE Failed(st)

R_call(t, st) ==
    LET a == Match("r_binary_call", t, st)
    IN  IF a.ok THEN a ELSE Match("r_unary_call", t, Rewind(a, st))

R_parentheses(t, st) == One(t, Match("r_expr", t, One(t, st, "(")), ")")

R_terminal(t, st) ==
    LET a == Match("r_call", t, st)
        b == IF a.ok THEN a ELSE Match("r_name", t, Rewind(a, st))
        c == IF b.ok THEN b ELSE Match("r_parentheses", t, Rewind(b, st))
        s == Match("r_sup_float", t, c)
    IN  IF ~c.ok THEN c
        ELSE IF s.ok THEN s ELSE Rewind(s, c)

\* r_signed <- "-" r_signed / "+" r_signed / r_terminal
R_signed(t, st) ==
    IF ~st.ok THEN st
    ELSE
    LET n == Match("r_signed", t, One(t, st, "-"))
        a == IF n.ok THEN Emit(n, "minus") ELSE n
        b == IF a.ok THEN a ELSE Match("r_signed", t, One(t, Rewind(a, st), "+"))
    IN  IF b.ok THEN b ELSE Match("r_terminal", t, Rewind(b, st))

\* r_pow <- ( "^" / "**" ) r_signed
R_powChained(t, st) ==
    IF Tok(t, st) \in PowTokens
    THEN LET a == Match("r_signed", t, Advance(st))
             b == IF a.ok THEN Match("star<r_pow>", t, a) ELSE a
         IN  IF b.ok THEN Emit(b, "pow") ELSE b
    ELSE Failed(st)
R_pow(t, st) ==
    IF Tok(t, st) \in PowTokens
    THEN LET a == Match("r_signed", t, Advance(st))
         IN  IF a.ok THEN Emit(a, "pow") ELSE a
    ELSE Failed(st)

StarPow(t, st) ==
    LET a == Match("r_pow", t, st)
    IN  IF a.ok THEN Match("star<r_pow>", t, a) ELSE Rewind(a, st)

\* r_factor <- r_terminal ( r_pow ) *
R_factor(t, st) ==
    LET a == Match("r_terminal", t, st)
    IN  IF a.ok THEN Match("star<r_pow>", t, a) ELSE a

\* r_signed2 <- "-" r_signed2 / "+" r_signed2 / r_factor
R_signed2Terminal(t, st) ==
    IF ~st.ok THEN st
    ELSE
    LET n == Match("r_terminal", t, One(t, st, "-"))
        a == IF n.ok THEN Match("star<r_pow>", t, Emit(n, "minus")) ELSE n
        b == IF a.ok THEN a ELSE Match("r_signed2", t, One(t, Rewind(a, st), "+"))
    IN  IF b.ok THEN b ELSE Match("r_factor", t, Rewind(b, st))
R_signed2(t, st) ==
    IF ~st.ok THEN st
    ELSE
    LET n == Match("r_signed2", t, One(t, st, "-"))
        a == IF n.ok THEN Emit(n, "minus") ELSE n
        b == IF a.ok THEN a ELSE Match("r_signed2", t, One(t, Rewind(a, st), "+"))
    IN  IF b.ok THEN b ELSE Match("r_factor", t, Rewind(b, st))

\* r_mul, r_div, r_mod: here "*" and "/".
R_mul(t, st) ==
    LET a == Match("r_signed2", t, One(t, st, "*"))
    IN  IF a.ok THEN Emit(a, "mul") ELSE a

R_div(t, st) ==
    LET a == Match("r_signed2", t, One(t, st, "/"))
    IN  IF a.ok THEN Emit(a, "div") ELSE a

StarMul(t, st) ==
    LET a == Match("r_mul", t, st)
        b == IF a.ok THEN a ELSE Match("r_div", t, Rewind(a, st))
    IN  IF b.ok THEN Match("star<r_mul, r_div>", t, b) ELSE Rewind(b, st)

R_term(t, st) ==
    LET a == Match("r_signed2", t, st)
    IN  IF a.ok THEN Match("star<r_mul, r_div>", t, a) ELSE a

R_add(t, st) ==
    LET a == Match("r_term", t, One(t, st, "+"))
    IN  IF a.ok THEN Emit(a, "add") ELSE a

R_sub(t, st) ==
    LET a == Match("r_term", t, One(t, st, "-"))
    IN  IF a.ok THEN Emit(a, "sub") ELSE a

StarAdd(t, st) ==
    LET a == Match("r_add", t, st)
        b == IF a.ok THEN a ELSE Match("r_sub", t, Rewind(a, st))
    IN  IF b.ok THEN Match("star<r_add, r_sub>", t, b) ELSE Rewind(b, st)

R_expr(t, st) ==
    IF ~st.ok THEN st
    ELSE LET a == Match("r_term", t, st)
         IN  IF a.ok THEN Match("star<r_add, r_sub>", t, a) ELSE a

Match(rule, t, st) ==
    CASE rule = "r_binary_call" -> R_binary_call(t, st)
      [] rule = "r_unary_call" -> R_unary_call(t, st)
      [] rule = "r_call" -> R_call(t, st)
      [] rule = "r_parentheses" -> R_parentheses(t, st)
      [] rule = "r_terminal" -> R_terminal(t, st)
      [] rule = "r_signed" -> R_signed(t, st)
      [] rule = "r_pow" -> R_pow(t, st)
      [] rule = "star<r_pow>" -> StarPow(t, st)
      [] rule = "r_factor" -> R_factor(t, st)
      [] rule = "r_signed2" -> R_signed2(t, st)
      [] rule = "r_mul" -> R_mul(t, st)
      [] rule = "r_div" -> R_div(t, st)
      [] rule = "star<r_mul, r_div>" -> StarMul(t, st)
      [] rule = "r_term" -> R_term(t, st)
      [] rule = "r_add" -> R_add(t, st)
      [] rule = "r_sub" -> R_sub(t, st)
      [] rule = "star<r_add, r_sub>" -> StarAdd(t, st)
      [] rule = "r_expr" -> R_expr(t, st)
      [] rule = "r_name" -> R_name(t, st)
      [] rule = "r_sup_float" -> R_sup_float(t, st)

\* r_stmt <- r_expr <end>, whose failure is the parse_error parse() catches.
R_stmt(t, st) ==
    LET a == Match("r_expr", t, st)
    IN  IF a.ok /\ a.pos = Len(t) + 1 THEN a ELSE Failed(a)

\* An expression object: m_ops, m_constants, m_temp_op.
Expression(ops, consts, temp) == [ops |-> ops, consts |-> consts, temp |-> temp]
EmptyExpression == Expression(<<>>, <<>>, <<>>)

\* m_ops.clear(); m_constants.clear();
ParseStartKeeping(e) == [pos |-> 1, ok |-> TRUE, ops |-> e.ops, consts |-> e.consts, temp |-> e.temp]
ParseStart(e) == [pos |-> 1, ok |-> TRUE, ops |-> <<>>, consts |-> <<>>, temp |-> e.temp]

\* expression::parse: the value returned and the object it leaves.
parse(e, t) ==
    LET r == R_stmt(t, ParseStart(e))
    IN  [ret |-> r.ok, ex |-> Expression(r.ops, r.consts, r.temp)]

(***************************************************************************)
(* expression: the evaluator, a stack machine over m_ops.  The functions   *)
(* take their values on the grid: sin by its cubic Taylor polynomial, pow  *)
(* by repeated product for the whole part of the exponent.                 *)
(***************************************************************************)
Mul(a, b) == Sat((a * b) \div Scale)

SinGrid(v) ==
    LET s == v - (v * v * v) \div (6 * Scale * Scale)
    IN  IF s > Scale THEN Scale ELSE IF s < -Scale THEN -Scale ELSE s

RECURSIVE IntPow(_, _)
IntPow(a, n) == IF n <= 0 THEN Scale ELSE Mul(IntPow(a, n - 1), a)

PowGrid(a, b, z) ==
    IF b >= 0 THEN IntPow(a, b \div Scale)
    ELSE Sat(Div(Scale * Scale, IntPow(a, (-b) \div Scale), z))

UnaryOps == {"minus", "sin"}

Unary(op, head) == IF op = "minus" THEN -head ELSE SinGrid(head)

Binary(op, a, head, z) ==
    CASE op = "add" -> Sat(a + head)
      [] op = "sub" -> Sat(a - head)
      [] op = "mul" -> Mul(a, head)
      [] op = "div" -> Sat(Div(a * Scale, head, z))
      [] OTHER      -> PowGrid(a, head, z)

\* What one pass of eval's loop over m_ops does to the stack.  A pop_val on
\* an empty stack or a constant index outside m_constants is undefined: the
\* run stops there and is marked.
EvalOp(e, i, r, x, z) ==
    LET op == e.ops[i][1]
        k == e.ops[i][2]
        n == Len(r.stack)
    IN  IF r.undefined THEN r
        ELSE IF op = "x" THEN [r EXCEPT !.stack = Append(@, x)]
        ELSE IF op = "y" THEN [r EXCEPT !.stack = Append(@, 0)]
        ELSE IF op = "constant"
        THEN IF k + 1 \in 1..Len(e.consts)
             THEN [r EXCEPT !.stack = Append(@, e.consts[k + 1])]
             ELSE [r EXCEPT !.undefined = TRUE]
        ELSE IF n = 0 THEN [r EXCEPT !.undefined = TRUE]
        ELSE IF op \in UnaryOps
        THEN [r EXCEPT !.stack = Append(SubSeq(@, 1, n - 1), Unary(op, r.stack[n]))]
        ELSE IF n = 1 THEN [r EXCEPT !.undefined = TRUE]
        ELSE [r EXCEPT !.stack = Append(SubSeq(@, 1, n - 2),
                                        Binary(op, r.stack[n - 1], r.stack[n], z))]

RECURSIVE EvalLoop(_, _, _, _)
EvalLoop(e, i, x, z) ==
    IF i = 0 THEN [stack |-> <<>>, undefined |-> FALSE]
    ELSE EvalOp(e, i, EvalLoop(e, i - 1, x, z), x, z)

\* The stack at eval's assert(stack.size() == 1).
EvalStack(e, x, z) == EvalLoop(e, Len(e.ops), x, z)

\* expression::eval, where it is defined: return pop_val().
eval(e, x, z) ==
    LET r == EvalStack(e, x, z)
    IN  IF r.undefined \/ r.stack = <<>> THEN 0 ELSE r.stack[Len(r.stack)]

\* expression::is_constant
is_constant_y(e) == \A i \in 1..Len(e.ops) : e.ops[i][1] \notin {"x", "y"}
is_constant(e) == \A i \in 1..Len(e.ops) : e.ops[i][1] # "x"

(***************************************************************************)
(* linear_system<T>, with T the field of the rationals: a number is a pair *)
(* <<numerator, denominator>> in lowest terms with a positive denominator. *)
(* A matrix is a function of the row, then of the column, both from 0.     *)
(***************************************************************************)
RECURSIVE GCD(_, _)
GCD(p, q) == IF q = 0 THEN p ELSE GCD(q, p % q)

Rat(p, q) ==
    LET g == GCD(Abs(p), Abs(q))
    IN  IF q > 0 THEN <<p \div g, q \div g>> ELSE <<(-p) \div g, (-q) \div g>>

RatZero == <<0, 1>>
RatOne == <<1, 1>>

RatAdd(u, v) == Rat(u[1] * v[2] + v[1] * u[2], u[2] * v[2])
RatSub(u, v) == Rat(u[1] * v[2] - v[1] * u[2], u[2] * v[2])
RatMul(u, v) == Rat(u[1] * v[1], u[2] * v[2])

\* (T)1 / u; z is what the quotient by zero is.
RatInverse(u, z) == IF u[1] = 0 THEN z ELSE Rat(u[2], u[1])

\* The values the model lets 1 / 0 take.
RatDivZeroValues == {RatZero, RatOne}

MaxEntry == 1
\* The systems inverse is applied to: 2 x 2 and 3 x 3, of whole numbers.
Matrices ==
    UNION {[0..(n - 1) -> [0..(n - 1) -> {<<e, 1>> : e \in (-MaxEntry)..MaxEntry}]] :
              n \in {2, 3}}

cols(m) == Cardinality(DOMAIN m)

\* linear_system::init
init(n, x) == [j \in 0..(n - 1) |-> [i \in 0..(n - 1) |-> IF i = j THEN x ELSE RatZero]]

\* The first row below i with a non-zero term in column i, or n.
RECURSIVE FirstNonZero(_, _, _, _)
FirstNonZero(a, i, j, n) ==
    IF j >= n THEN n
    ELSE IF a[j][i] # RatZero THEN j
    ELSE FirstNonZero(a, i, j + 1, n)

\* Add row j to row i
AddRowOfAOnly(s, i, j) ==
    [s EXCEPT !.a[i] = [k \in DOMAIN s.a[i] |-> RatAdd(s.a[i][k], s.a[j][k])]]
AddRow(s, i, j) ==
    [a |-> [s.a EXCEPT ![i] = [k \in DOMAIN s.a[i] |-> RatAdd(s.a[i][k], s.a[j][k])]],
     b |-> [s.b EXCEPT ![i] = [k \in DOMAIN s.b[i] |-> RatAdd(s.b[i][k], s.b[j][k])]]]

\* if (!a[i][i]) ...
FixDiagonal(s, i, n) ==
    LET j == FirstNonZero(s.a, i, i + 1, n)
    IN  IF s.a[i][i] = RatZero /\ j < n THEN AddRow(s, i, j) ELSE s

\* Nullify the other terms of column i: row j loses mul times row i.
Eliminate(m, a, i, x) ==
    [j \in DOMAIN m |->
        IF j = i THEN m[j]
        ELSE [k \in DOMAIN m[j] |->
                 RatSub(m[j][k], RatMul(RatMul(x, a[j][i]), m[i][k]))]]

ScaleRow(m, i, x) == [m EXCEPT ![i] = [k \in DOMAIN m[i] |-> RatMul(m[i][k], x)]]

\* One pass of inverse's loop over the columns.
InverseColumn(s, i, n, z) ==
    LET f == FixDiagonal(s, i, n)
        x == RatInverse(f.a[i][i], z)
    IN  [a |-> ScaleRow(Eliminate(f.a, f.a, i, x), i, x),
         b |-> ScaleRow(Eliminate(f.b, f.a, i, x), i, x)]

RECURSIVE InverseLoop(_, _, _, _)
InverseLoop(m, i, n, z) ==
    IF i = 0 THEN [a |-> m, b |-> init(n, RatOne)]
    ELSE InverseColumn(InverseLoop(m, i - 1, n, z), i - 1, n, z)

\* linear_system::inverse
inverse(m, z) == InverseLoop(m, cols(m), cols(m), z).b

(***************************************************************************)
(* The texts main hands to parse: every sequence of at most MaxLen tokens  *)
(* of Alphabet, and the longer texts built from a few terminals.           *)
(***************************************************************************)
MaxLen == 3

Alphabet ==
    {"x", "y", "5", "pi", "sin", "pow", "^", "**", "sup2",
     "-", "+", "*", "/", "(", ")", ","}

ShortTexts == UNION {[1..k -> Alphabet] : k \in 0..MaxLen}

\* Texts the grammar's r_terminal matches whole.
TerminalTexts ==
    {<<"x">>, <<"y">>, <<"5">>, <<"pi">>, <<"x", "sup2">>, <<"(", "x", "+", "5", ")">>,
     <<"sin", "(", "x", ")">>, <<"pow", "(", "x", ",", "y", ")">>}

NegPowTexts == {<<"-">> \o a \o <<p>> \o b : a \in TerminalTexts, b \in TerminalTexts, p \in PowTokens}

ChainTails == {<<"x">>, <<"5">>, <<"sin", "(", "x", ")">>}

PowChainTexts ==
    {a \o <<p>> \o b \o <<q>> \o c :
        a \in TerminalTexts, b \in TerminalTexts, c \in ChainTails,
        p \in PowTokens, q \in PowTokens}

LongTexts ==
    {<<"sin", "(", "pi", "/", "4", ")">>, <<"sin", "(", "x", "*", "(", "5">>,
     <<"pow", "(", "x", "+", "5", ")">>, <<"5", "*", "x", "+", "sin", "(", "x", ")">>}

Texts == ShortTexts \cup NegPowTexts \cup PowChainTexts \cup LongTexts

VARIABLES
    pc,               \* position of the driver thread (main)
    idx,              \* loop counter i of the driver's current for loop
    finished,         \* find_zeros / find_extrema: local finished
    cur,              \* find_zeros / find_extrema: local i, the popped index
    old_error,        \* do_step: local old_error
    iter,             \* main: iteration
    m_order, m_rf, m_func,
    m_k1, m_k2, m_epsilon, m_error,
    m_estimate, m_zeros, m_control,
    m_zeros_state, m_extrema_state,
    m_questions, m_answers,
    wpc,              \* position of each worker thread
    wtag,             \* worker_thread: local i, the popped tag
    done,             \* history: the indices the current watch loop has finished
    first,            \* history: the brackets of the current phase as its posting loop left them
    cli,              \* main: the options CLI11_PARSE has filled in, once main reads them
    str_xmin, str_xmax,
    ex,               \* main: the expression object ex
    str,              \* history: the text of main's last call of ex.parse
    ret,              \* history: what that call returned
    xmin, xmax,
    out,              \* the lines written to standard output
    status,           \* the process's exit status
    system,           \* remez_step: the local system
    inv               \* remez_step: the temporary system.inverse() returns

vars == <<pc, idx, finished, cur, old_error, iter, m_order, m_rf, m_func,
          m_k1, m_k2, m_epsilon, m_error, m_estimate, m_zeros, m_control,
          m_zeros_state, m_extrema_state, m_questions, m_answers, wpc, wtag,
          done, first, cli, str_xmin, str_xmax, ex, str, ret, xmin, xmax, out, status,
          system, inv>>

mainVars == <<cli, str_xmin, str_xmax, ex, str, ret, xmin, xmax, out, status>>
matrixVars == <<system, inv>>
givenVars == <<m_order, m_rf, m_func, mainVars, matrixVars>>
inputVars == <<givenVars, first>>
driverLocals == <<idx, finished, cur, old_error, iter, done>>
scalarVars == <<m_k1, m_k2, m_epsilon, m_error, m_estimate>>
workerVars == <<wpc, wtag>>

Point(x, err) == [x |-> x, err |-> err]
ZeroPoint == Point(0, 0)
NewBracket == [k \in 0..2 |-> ZeroPoint]

(***************************************************************************)
(* Helpers of remez_solver.                                                *)
(***************************************************************************)
\* Horner's rule over the coefficients lo..hi, acc being the value of the
\* higher ones; a coefficient is in units of 1/Scale^2.  The range is halved,
\* the higher half first, so that a polynomial of a thousand coefficients is
\* evaluated at a nesting depth of ten.
RECURSIVE HornerFrom(_, _, _, _, _)
HornerFrom(coeffs, lo, hi, x, acc) ==
    IF lo > hi THEN acc
    ELSE IF lo = hi THEN Sat(coeffs[lo] + (x * acc) \div Scale)
    ELSE LET mid == (lo + hi) \div 2
             high == HornerFrom(coeffs, mid + 1, hi, x, acc)
         IN  IF high = high THEN HornerFrom(coeffs, lo, mid, x, high) ELSE 0

\* The value of the n highest coefficients.
Horner(coeffs, n, x) ==
    HornerFrom(coeffs, Len(coeffs) - n + 1, Len(coeffs), x, 0)

eval_estimate(x) == Horner(m_estimate, Len(m_estimate), x)

eval_func(x) == ApplyFunc(m_func, Sat((x * m_k2) \div Scale + m_k1))

eval_weight(x) == 1

eval_error(x) == Abs((eval_estimate(x) - eval_func(x)) \div eval_weight(x))

\* The range: solver.h's defaults, [-1, 1].
m_xmin == -Scale
m_xmax == Scale

(***************************************************************************)
(* worker_thread: one root-finding step on a zero bracket.                 *)
(***************************************************************************)
FalsePosition(a, b, z) ==
    Sat(a.x - Div(a.err * (b.x - a.x), b.err - a.err, z))

MidpointThird(a, b) == Div(2 * a.x + b.x, 3, 0)
Midpoint(a, b) == Div(a.x + b.x, 2, 0)

Candidate(rf, a, b, z) ==
    IF rf = "bisect" THEN Midpoint(a, b) ELSE FalsePosition(a, b, z)

\* The value the dampening leaves in pd->err.
DampenHalved(rf, pdErr, psErr, cErr, oldCErr, z) == Div(pdErr, 2, z)
Dampen(rf, pdErr, psErr, cErr, oldCErr, z) ==
    CASE rf = "illinois" -> Div(pdErr, 2, z)
      [] rf = "pegasus"  -> Sat(Div(pdErr * oldCErr, oldCErr + cErr, z))
      [] rf = "ford"     -> Sat(pdErr - Div(cErr * pdErr, psErr, z)
                                      - Div(cErr * pdErr, pdErr, z))
      [] OTHER           -> pdErr

\* The index (0 for a, 1 for b) of ps, the endpoint c replaces.
SameSignIndex(a, cErr) == IF Sign(a.err) * Sign(cErr) > 0 THEN 0 ELSE 1

RootStep(rf, br, z) ==
    LET a == br[0]
        b == br[1]
        old_c_err == br[2].err
        cx == Candidate(rf, a, b, z)
        c == Point(cx, Sat(eval_estimate(cx) - eval_func(cx)))
        ps == SameSignIndex(a, c.err)
        pd == 1 - ps
        damped == IF Sign(c.err) * Sign(old_c_err) > 0
                  THEN Dampen(rf, br[pd].err, br[ps].err, c.err, old_c_err, z)
                  ELSE br[pd].err
    IN  [k \in 0..2 |-> IF k = pd THEN Point(br[pd].x, damped) ELSE c]

(***************************************************************************)
(* worker_thread: one step of successive parabolic interpolation.          *)
(***************************************************************************)
Parabolic(a, b, c, z) ==
    LET d1 == c.x - a.x
        d2 == c.x - b.x
        k1 == d1 * (c.err - b.err)
        k2 == d2 * (c.err - a.err)
    IN  Sat(c.x - Div(Div(d1 * k1 - d2 * k2, k1 - k2, z), 2, z))

\* The step without the fallback to the midpoint.
ExtremaStepUnclamped(br, z) ==
    LET a == br[0]
        b == br[1]
        c == br[2]
        dx == Parabolic(a, b, c, z)
        d == Point(dx, eval_error(dx))
    IN  IF d.err < c.err
        THEN IF d.x > c.x THEN [br EXCEPT ![1] = d] ELSE [br EXCEPT ![0] = d]
        ELSE IF d.x > c.x THEN [br EXCEPT ![0] = c, ![2] = d]
                          ELSE [br EXCEPT ![1] = c, ![2] = d]

\* The step with the old c put on d's own side in the second case.
ExtremaStepSameSide(br, z) ==
    LET a == br[0]
        b == br[1]
        c == br[2]
        dx0 == Parabolic(a, b, c, z)
        dx == IF dx0 <= a.x \/ dx0 >= b.x THEN Midpoint(a, b) ELSE dx0
        d == Point(dx, eval_error(dx))
    IN  IF d.err < c.err
        THEN IF d.x > c.x THEN [br EXCEPT ![1] = d] ELSE [br EXCEPT ![0] = d]
        ELSE IF d.x > c.x THEN [br EXCEPT ![1] = c, ![2] = d]
                          ELSE [br EXCEPT ![0] = c, ![2] = d]

ExtremaStep(br, z) ==
    LET a == br[0]
        b == br[1]
        c == br[2]
        dx0 == Parabolic(a, b, c, z)
        dx == IF dx0 <= a.x \/ dx0 >= b.x THEN Midpoint(a, b) ELSE dx0
        d == Point(dx, eval_error(dx))
    IN  IF d.err < c.err
        THEN IF d.x > c.x THEN [br EXCEPT ![1] = d] ELSE [br EXCEPT ![0] = d]
        ELSE IF d.x > c.x THEN [br EXCEPT ![0] = c, ![2] = d]
                          ELSE [br EXCEPT ![1] = c, ![2] = d]

(***************************************************************************)
(* The initial states.  The solver is constructed, and its constructor has *)
(* spawned the workers, in both of them.  Init is main at its call of      *)
(* do_init, for the default range and a function of Funcs, with main's     *)
(* locals as they are declared; MainInit is main after CLI11_PARSE.        *)
(***************************************************************************)
\* std::optional: <<>> when the option is absent, <<v>> when it is v.
NoOptions == [degree |-> <<>>, range |-> <<>>, bits |-> <<>>, expr |-> <<>>, error |-> <<>>]

DefaultOrder == 4

SolverInitWith(funcs) ==
    /\ idx = 0 /\ finished = 0 /\ cur = 0 /\ old_error = 0 /\ iter = 0
    /\ m_func \in funcs
    /\ m_k1 = 0 /\ m_k2 = 0 /\ m_epsilon = 0 /\ m_error = 0
    /\ m_estimate = <<>>
    /\ m_zeros = <<>> /\ m_control = <<>>
    /\ m_zeros_state = <<>> /\ m_extrema_state = <<>>
    /\ m_questions = <<>> /\ m_answers = <<>>
    /\ wpc = [w \in Workers |-> "pop"]
    /\ wtag = [w \in Workers |-> 0]
    /\ done = {}
    /\ first = <<>>

SolverInit == SolverInitWith(Funcs)

MainLocals ==
    /\ cli = NoOptions
    /\ str_xmin = <<"-", "1">> /\ str_xmax = <<"1">>
    /\ ex = EmptyExpression /\ str = <<>> /\ ret = TRUE
    /\ xmin = 0 /\ xmax = 0
    /\ out = <<>> /\ status = "running"

Init ==
    /\ pc = "main"
    /\ m_order \in Orders
    /\ m_rf \in RootFinders
    /\ SolverInit
    /\ MainLocals
    /\ system = <<>> /\ inv = <<>>

MainInit ==
    /\ pc = "m_degree"
    /\ m_order = DefaultOrder
    /\ m_rf = "pegasus"
    /\ SolverInit
    /\ MainLocals
    /\ system = <<>> /\ inv = <<>>

\* remez_step at its call of system.inverse(), for the systems of Matrices.
MatrixInit ==
    /\ pc = "rs_inverse"
    /\ m_order \in Orders
    /\ m_rf = "pegasus"
    /\ SolverInit
    /\ MainLocals
    /\ system \in Matrices /\ inv = <<>>

(***************************************************************************)
(* main, from CLI11_PARSE to do_init.  An option's value is drawn when     *)
(* main first reads it; the two positional arguments are drawn together.   *)
(***************************************************************************)
solverInputs == <<m_order, m_rf, m_func, mainVars, driverLocals, scalarVars,
                  m_zeros, m_control, m_zeros_state, m_extrema_state,
                  m_questions, m_answers, workerVars, first>>
solverVars == <<m_rf, m_func, driverLocals, scalarVars, m_zeros, m_control,
                m_zeros_state, m_extrema_state, m_questions, m_answers,
                workerVars, matrixVars, first>>

Degrees == {-1, 0, 1}
Precisions == {31, 32, 65536}
MinBits == 32
MaxBits == 65535

\* The pieces lol::split(*range, ':') returns.
Ranges ==
    {<< <<"-", "1">>, <<"1">> >>,
     << <<"pi">>, <<"5">> >>,
     << <<"1">>, <<"-", "1">> >>,
     << <<"1">>, <<"1">> >>,
     << <<"x">>, <<"1">> >>,
     << <<"1">>, <<"x">> >>,
     << <<"sin", "(">>, <<"1">> >>,
     << <<"1">>, <<"(">> >>,
     << <<"1", "/", "(", "1", "-", "1", ")">>, <<"2">> >>,
     << <<"1">> >>,
     << <<"1">>, <<"2">>, <<"4">> >>}

Weights == {<<"x">>, <<"5">>, <<"x", "+">>}

Optional(S) == {<<>>} \cup {<<v>> : v \in S}

UsageHint == "Try 'lolremez --help' for more information."

\* FAIL(message): the lines it prints after those already printed, and exit.
FAIL(printed, message) ==
    /\ out' = printed \o << <<"Error: ", message>>, <<UsageHint>> >>
    /\ status' = "EXIT_FAILURE"
    /\ pc' = "failed"

\* What parse() prints: "parse error: ..." when it catches a parse_error.
ParseLines(r) == IF r.ret THEN out ELSE Append(out, <<"parse error: ">>)

\* if (degree) ...
MainDegree ==
    /\ pc = "m_degree"
    /\ \E d \in Optional(Degrees) :
        /\ cli' = [cli EXCEPT !.degree = d]
        /\ IF d # <<>> /\ d[1] < 1
           THEN FAIL(out, "invalid degree: must be at least 1") /\ UNCHANGED m_order
           ELSE /\ m_order' = IF d # <<>> THEN d[1] ELSE m_order
                /\ pc' = "m_range"
                /\ UNCHANGED <<out, status>>
    /\ UNCHANGED <<solverVars, str_xmin, str_xmax, ex, str, ret, xmin, xmax>>

\* if (range) ...
MainRange ==
    /\ pc = "m_range"
    /\ \E r \in Optional(Ranges) :
        /\ cli' = [cli EXCEPT !.range = r]
        /\ IF r # <<>> /\ Len(r[1]) # 2
           THEN FAIL(out, "invalid range") /\ UNCHANGED <<str_xmin, str_xmax>>
           ELSE /\ str_xmin' = IF r # <<>> THEN r[1][1] ELSE str_xmin
                /\ str_xmax' = IF r # <<>> THEN r[1][2] ELSE str_xmax
                /\ pc' = "m_bits"
                /\ UNCHANGED <<out, status>>
    /\ UNCHANGED <<solverVars, m_order, ex, str, ret, xmin, xmax>>

\* if (bits) ...
MainBits ==
    /\ pc = "m_bits"
    /\ \E b \in Optional(Precisions) :
        /\ cli' = [cli EXCEPT !.bits = b]
        /\ IF b # <<>> /\ (b[1] < MinBits \/ b[1] > MaxBits)
           THEN FAIL(out, "invalid precision")
           ELSE pc' = "m_xmin" /\ UNCHANGED <<out, status>>
    /\ UNCHANGED <<solverVars, m_order, str_xmin, str_xmax, ex, str, ret, xmin, xmax>>

\* ex.parse(str_xmin), ex.is_constant(), xmin = ex.eval(0)
MainXmin ==
    /\ pc = "m_xmin"
    /\ \E r \in {parse(ex, str_xmin)} :
           /\ ex' = r.ex /\ str' = str_xmin /\ ret' = r.ret
           /\ IF ~r.ret
              THEN FAIL(ParseLines(r), "invalid range xmin syntax") /\ UNCHANGED xmin
              ELSE IF ~is_constant(r.ex)
              THEN FAIL(out, "invalid range: xmin must be constant") /\ UNCHANGED xmin
              ELSE /\ \E z \in DivZeroValues : xmin' = eval(r.ex, 0, z)
                   /\ pc' = "m_xmax"
                   /\ UNCHANGED <<out, status>>
    /\ UNCHANGED <<solverVars, m_order, cli, str_xmin, str_xmax, xmax>>

\* ex.parse(str_xmax), ex.is_constant(), xmax = ex.eval(0), xmin >= xmax
MainXmax ==
    /\ pc = "m_xmax"
    /\ \E r \in {parse(ex, str_xmax)} :
           /\ ex' = r.ex /\ str' = str_xmax /\ ret' = r.ret
           /\ IF ~r.ret
              THEN FAIL(ParseLines(r), "invalid range xmax syntax") /\ UNCHANGED xmax
              ELSE IF ~is_constant(r.ex)
              THEN FAIL(out, "invalid range: xmax must be constant") /\ UNCHANGED xmax
              ELSE \E z \in DivZeroValues :
                   /\ xmax' = eval(r.ex, 0, z)
                   /\ IF xmin >= xmax'
                      THEN FAIL(out, "invalid range: xmin >= xmax")
                      ELSE pc' = "m_expr" /\ UNCHANGED <<out, status>>
    /\ UNCHANGED <<solverVars, m_order, cli, str_xmin, str_xmax, xmin>>

\* ex.parse(expr), and the special case of a constant function.
MainExpr ==
    /\ pc = "m_expr"
    /\ \E t \in Texts, e \in Optional(Weights) :
        \E r \in {parse(ex, t)} :
            /\ cli' = [cli EXCEPT !.expr = t, !.error = e]
            /\ ex' = r.ex /\ str' = t /\ ret' = r.ret
            /\ IF ~r.ret
               THEN FAIL(ParseLines(r), "invalid function")
               ELSE IF is_constant(r.ex)
               THEN \E z \in DivZeroValues :
                    /\ out' = Append(out, <<eval(r.ex, 0, z)>>)
                    /\ status' = "EXIT_SUCCESS"
                    /\ pc' = "dtor_push"
               ELSE pc' = "m_weight" /\ UNCHANGED <<out, status>>
    /\ UNCHANGED <<solverVars, m_order, str_xmin, str_xmax, xmin, xmax>>

\* if (error) ..., then the setters that precede do_init.
MainWeight ==
    /\ pc = "m_weight"
    /\ IF cli.error = <<>>
       THEN pc' = "main" /\ UNCHANGED <<ex, str, ret, out, status>>
       ELSE \E r \in {parse(ex, cli.error[1])} :
                /\ ex' = r.ex /\ str' = cli.error[1] /\ ret' = r.ret
                /\ IF ~r.ret
                   THEN FAIL(ParseLines(r), "invalid weight function")
                   ELSE pc' = "main" /\ UNCHANGED <<out, status>>
    /\ UNCHANGED <<solverVars, m_order, cli, str_xmin, str_xmax, xmin, xmax>>

(***************************************************************************)
(* main                                                                    *)
(***************************************************************************)
\* FAIL(): exit(EXIT_FAILURE), which runs no destructor of main's locals.
MainFail ==
    /\ pc = "main"
    /\ pc' = "failed"
    /\ UNCHANGED <<driverLocals, inputVars, scalarVars, m_zeros, m_control,
                   m_zeros_state, m_extrema_state, m_questions, m_answers,
                   workerVars>>

\* The function is constant: print its value and return EXIT_SUCCESS.
MainConstant ==
    /\ pc = "main"
    /\ pc' = "dtor_push"
    /\ UNCHANGED <<driverLocals, inputVars, scalarVars,
                   m_zeros, m_control, m_zeros_state, m_extrema_state,
                   m_questions, m_answers, workerVars>>

(***************************************************************************)
(* do_init, remez_init                                                     *)
(***************************************************************************)
InitialZero(order, i) == Div((2 * i - order) * Scale, order + 1, 0)

\* m_epsilon = 10^-(m_digits + 2): the grid's unit.
Epsilon == 1

DoInit ==
    /\ pc = "main"
    /\ m_k1' = Div(m_xmax + m_xmin, 2, 0)
    /\ m_k2' = Div(m_xmax - m_xmin, 2, 0)
    /\ m_epsilon' = Epsilon
    /\ m_zeros' = [i \in 0..m_order |-> InitialZero(m_order, i)]
    /\ m_zeros_state' = [i \in 0..m_order |-> NewBracket]
    /\ m_control' = [i \in 0..(m_order + 1) |-> 0]
    /\ m_extrema_state' = [i \in 0..(m_order + 1) |-> NewBracket]
    /\ m_estimate' \in InitEstimates(m_order)
    /\ pc' = "do_step"
    /\ UNCHANGED <<driverLocals, inputVars, m_error, m_questions, m_answers,
                   workerVars>>

(***************************************************************************)
(* do_step: the prologue of find_extrema                                   *)
(***************************************************************************)
\* real const old_error = m_error, and find_extrema's first three statements.
DoStepEnter ==
    /\ pc = "do_step"
    /\ old_error' = m_error
    /\ m_control' = [m_control EXCEPT ![0] = -Scale, ![m_order + 1] = Scale]
    /\ m_error' = 0
    /\ pc' = "fe_init"
    /\ UNCHANGED <<idx, finished, cur, iter, done, inputVars, m_k1, m_k2, m_epsilon,
                   m_estimate, m_zeros, m_zeros_state, m_extrema_state,
                   m_questions, m_answers, workerVars>>

\* The do_step calls of main's first MaxIter iterations.
DoStepBegin == iter < MaxIter /\ DoStepEnter

(***************************************************************************)
(* find_extrema                                                            *)
(***************************************************************************)
\* The history of a phase: bracket i as the posting loop initialised it.  The
\* first bracket of a phase starts the history anew.
Posted(h, i, br) == IF i = 0 THEN (0 :> br) ELSE (i :> br) @@ h

\* The brackets find_extrema posts, and the completions it waits for.
ExtremaPosted(order) == order + 2
ExtremaAwaitedShort(order) == order + 1
ExtremaAwaited(order) == order + 2

ExtremaBracket(i, u) ==
    LET ax == IF i = 0 THEN -Scale ELSE m_zeros[i - 1]
        bx == IF i = m_order + 1 THEN Scale ELSE m_zeros[i]
        cx == Sat(ax + Div((bx - ax) * u[1], u[2], 0))
    IN  [k \in 0..2 |-> CASE k = 0 -> Point(ax, eval_error(ax))
                          [] k = 1 -> Point(bx, eval_error(bx))
                          [] k = 2 -> Point(cx, eval_error(cx))]

FindExtremaInit ==
    /\ pc = "fe_init"
    /\ \E u \in RandFractions :
          m_extrema_state' = [m_extrema_state EXCEPT ![idx] = ExtremaBracket(idx, u)]
    /\ first' = Posted(first, idx, m_extrema_state'[idx])
    /\ pc' = "fe_post"
    /\ UNCHANGED <<driverLocals, givenVars, scalarVars, m_zeros, m_control,
                   m_zeros_state, m_questions, m_answers, workerVars>>

FindExtremaPost ==
    /\ pc = "fe_post"
    /\ m_questions' = Append(m_questions, idx + ExtremaTagBase)
    /\ IF idx + 1 < ExtremaPosted(m_order)
       THEN idx' = idx + 1 /\ pc' = "fe_init"
       ELSE idx' = 0 /\ pc' = "fe_pop"
    /\ UNCHANGED <<finished, cur, old_error, iter, done, inputVars, scalarVars, m_zeros,
                   m_control, m_zeros_state, m_extrema_state, m_answers,
                   workerVars>>

FindExtremaPop ==
    /\ pc = "fe_pop"
    /\ m_answers # <<>>
    /\ cur' = Head(m_answers) - ExtremaTagBase
    /\ m_answers' = Tail(m_answers)
    /\ pc' = "fe_check"
    /\ UNCHANGED <<idx, finished, old_error, iter, done, inputVars, scalarVars,
                   m_zeros, m_control, m_zeros_state, m_extrema_state,
                   m_questions, workerVars>>

ExtremaDoneStrict(br) == br[1].x - br[0].x < m_epsilon
ExtremaDone(br) == br[1].x - br[0].x <= m_epsilon

\* m_control[i] = c.x, for every finished bracket i.
FinishedControlClamped(i, c) ==
    IF i \in {0, m_order + 1} THEN m_control ELSE [m_control EXCEPT ![i] = c.x]
FinishedControl(i, c) == [m_control EXCEPT ![i] = c.x]

\* if (c.err > m_error) m_error = c.err;
LastError(error, c) == c.err
RaisedError(error, c) == IF c.err > error THEN c.err ELSE error

FindExtremaCheck ==
    /\ pc = "fe_check"
    /\ LET br == m_extrema_state[cur]
       IN  IF ExtremaDone(br)
           THEN /\ m_control' = FinishedControl(cur, br[2])
                /\ m_error' = RaisedError(m_error, br[2])
                /\ IF finished + 1 < ExtremaAwaited(m_order)
                   THEN /\ finished' = finished + 1
                        /\ done' = done \cup {cur}
                        /\ pc' = "fe_pop"
                   ELSE /\ finished' = 0
                        /\ done' = {}
                        /\ pc' = "remez_step"
                /\ UNCHANGED m_questions
           ELSE /\ m_questions' = Append(m_questions, cur + ExtremaTagBase)
                /\ pc' = "fe_pop"
                /\ UNCHANGED <<m_control, m_error, finished, done>>
    /\ cur' = 0
    /\ UNCHANGED <<idx, old_error, iter, inputVars, m_k1, m_k2, m_epsilon,
                   m_estimate, m_zeros, m_zeros_state, m_extrema_state,
                   m_answers, workerVars>>

(***************************************************************************)
(* remez_step, and do_step's convergence test                              *)
(***************************************************************************)
RemezStep ==
    /\ pc = "remez_step"
    /\ m_estimate' \in StepEstimates(m_order)
    /\ pc' = "converge"
    /\ UNCHANGED <<driverLocals, inputVars, m_k1, m_k2, m_epsilon, m_error,
                   m_zeros, m_control, m_zeros_state, m_extrema_state,
                   m_questions, m_answers, workerVars>>

\* m_error >= 0 && fabs(m_error - old_error) < m_error * m_epsilon, with
\* m_epsilon counted in units of 1/Scale.
ConvergedOrEqual(error, old) ==
    error >= 0 /\ Abs(error - old) * Scale <= error * m_epsilon
ConvergedSigned(error, old) ==
    error >= 0 /\ (error - old) * Scale < error * m_epsilon
Converged(error, old) ==
    error >= 0 /\ Abs(error - old) * Scale < error * m_epsilon

DoStepTest ==
    /\ pc = "converge"
    /\ IF Converged(m_error, old_error)
       THEN pc' = "dtor_push"
       ELSE pc' = "fz_init"
    /\ old_error' = 0
    /\ UNCHANGED <<idx, finished, cur, iter, done, inputVars, scalarVars,
                   m_zeros, m_control, m_zeros_state, m_extrema_state,
                   m_questions, m_answers, workerVars>>

(***************************************************************************)
(* find_zeros                                                              *)
(***************************************************************************)
\* The references find_zeros binds to the bracket's points a, b and c.
ZeroInitA == 0
ZeroInitB == 1
ZeroInitC == 1

\* The brackets find_zeros posts, and the completions it waits for.
ZerosPosted(order) == order + 1
ZerosAwaited(order) == order + 1

ZeroBracket(old, i) ==
    LET ax == m_control[i]
        bx == m_control[i + 1]
        s1 == [old EXCEPT ![ZeroInitA] = Point(ax, Sat(eval_estimate(ax) - eval_func(ax)))]
        s2 == [s1 EXCEPT ![ZeroInitB] = Point(bx, Sat(eval_estimate(bx) - eval_func(bx)))]
    IN  [s2 EXCEPT ![ZeroInitC].err = 0]

FindZerosInit ==
    /\ pc = "fz_init"
    /\ m_zeros_state' = [m_zeros_state EXCEPT ![idx] = ZeroBracket(m_zeros_state[idx], idx)]
    /\ first' = Posted(first, idx, m_zeros_state'[idx])
    /\ pc' = "fz_post"
    /\ UNCHANGED <<driverLocals, givenVars, scalarVars, m_zeros, m_control,
                   m_extrema_state, m_questions, m_answers, workerVars>>

FindZerosPost ==
    /\ pc = "fz_post"
    /\ m_questions' = Append(m_questions, idx)
    /\ IF idx + 1 < ZerosPosted(m_order)
       THEN idx' = idx + 1 /\ pc' = "fz_init"
       ELSE idx' = 0 /\ pc' = "fz_pop"
    /\ UNCHANGED <<finished, cur, old_error, iter, done, inputVars, scalarVars, m_zeros,
                   m_control, m_zeros_state, m_extrema_state, m_answers,
                   workerVars>>

FindZerosPop ==
    /\ pc = "fz_pop"
    /\ m_answers # <<>>
    /\ cur' = Head(m_answers)
    /\ m_answers' = Tail(m_answers)
    /\ pc' = "fz_check"
    /\ UNCHANGED <<idx, finished, old_error, iter, done, inputVars, scalarVars,
                   m_zeros, m_control, m_zeros_state, m_extrema_state,
                   m_questions, workerVars>>

\* main's ++iteration.  The loop has no upper limit; the model counts the
\* iterations up to MaxIter and no further.
IterationAfter(n) == IF n < MaxIter THEN n + 1 ELSE n

ZeroDoneByWidth(br) == Abs(br[0].x - br[1].x) <= m_epsilon
ZeroDone(br) == br[2].err = 0 \/ Abs(br[0].x - br[1].x) <= m_epsilon

FindZerosCheck ==
    /\ pc = "fz_check"
    /\ LET br == m_zeros_state[cur]
       IN  IF ZeroDone(br)
           THEN /\ m_zeros' = [m_zeros EXCEPT ![cur] = br[2].x]
                /\ IF finished + 1 < ZerosAwaited(m_order)
                   THEN /\ finished' = finished + 1
                        /\ done' = done \cup {cur}
                        /\ pc' = "fz_pop"
                        /\ iter' = iter
                   ELSE /\ finished' = 0
                        /\ done' = {}
                        /\ pc' = "do_step"
                        /\ iter' = IterationAfter(iter)
                /\ UNCHANGED m_questions
           ELSE /\ m_questions' = Append(m_questions, cur)
                /\ pc' = "fz_pop"
                /\ UNCHANGED <<m_zeros, finished, iter, done>>
    /\ cur' = 0
    /\ UNCHANGED <<idx, old_error, inputVars, scalarVars, m_control,
                   m_zeros_state, m_extrema_state, m_answers, workerVars>>

(***************************************************************************)
(* worker_thread                                                           *)
(***************************************************************************)
WorkerPop(w) ==
    /\ wpc[w] = "pop"
    /\ \A v \in Workers : v < w => wpc[v] # "pop"
    /\ m_questions # <<>>
    /\ wtag' = [wtag EXCEPT ![w] = Head(m_questions)]
    /\ m_questions' = Tail(m_questions)
    /\ wpc' = [wpc EXCEPT ![w] = "work"]
    /\ UNCHANGED <<pc, driverLocals, inputVars, scalarVars, m_zeros, m_control,
                   m_zeros_state, m_extrema_state, m_answers>>

\* The kind of job a tag names, by worker_thread's if / else if chain.
TagKindUnsigned(i) ==
    IF i < ExtremaTagBase THEN "zero"
    ELSE IF i < TagLimit THEN "extremum"
    ELSE "none"
TagKind(i) ==
    IF i < 0 THEN "quit"
    ELSE IF i < ExtremaTagBase THEN "zero"
    ELSE IF i < TagLimit THEN "extremum"
    ELSE "none"

\* The bracket a tag names.
ZeroIndexOff(i) == IF i = 0 THEN 1 ELSE i
ZeroIndex(i) == i
ExtremumIndexOff(i) == IF i = ExtremaTagBase THEN 1 ELSE i - ExtremaTagBase
ExtremumIndex(i) == i - ExtremaTagBase

\* m_answers.push(i) closing a root-finding step on bracket i, and
\* m_answers.push(i + 1000) closing an extremum step on bracket i.
RootAnswered(q, i) == Append(q, i)
ExtremumAnsweredTwice(q, i) ==
    Append(Append(q, i + ExtremaTagBase), i + ExtremaTagBase)
ExtremumAnswered(q, i) == Append(q, i + ExtremaTagBase)

WorkerQuitSilent(w) ==
    /\ wpc[w] = "work"
    /\ TagKind(wtag[w]) = "quit"
    /\ wpc' = [wpc EXCEPT ![w] = "exited"]
    /\ UNCHANGED <<pc, driverLocals, inputVars, scalarVars, m_zeros, m_control,
                   m_zeros_state, m_extrema_state, m_questions, m_answers, wtag>>

WorkerQuit(w) ==
    /\ wpc[w] = "work"
    /\ TagKind(wtag[w]) = "quit"
    /\ m_answers' = Append(m_answers, wtag[w])
    /\ wpc' = [wpc EXCEPT ![w] = "exited"]
    /\ UNCHANGED <<pc, driverLocals, inputVars, scalarVars, m_zeros, m_control,
                   m_zeros_state, m_extrema_state, m_questions, wtag>>

WorkerRootStep(w) ==
    /\ wpc[w] = "work"
    /\ TagKind(wtag[w]) = "zero"
    /\ \E z \in DivZeroValues :
          m_zeros_state' = [m_zeros_state EXCEPT
              ![ZeroIndex(wtag[w])] = RootStep(m_rf, m_zeros_state[ZeroIndex(wtag[w])], z)]
    /\ m_answers' = RootAnswered(m_answers, ZeroIndex(wtag[w]))
    /\ wpc' = [wpc EXCEPT ![w] = "pop"]
    /\ UNCHANGED <<pc, driverLocals, inputVars, scalarVars, m_zeros, m_control,
                   m_extrema_state, m_questions, wtag>>

WorkerExtremaStep(w) ==
    /\ wpc[w] = "work"
    /\ TagKind(wtag[w]) = "extremum"
    /\ \E z \in DivZeroValues :
          m_extrema_state' = [m_extrema_state EXCEPT
              ![ExtremumIndex(wtag[w])] =
                  ExtremaStep(m_extrema_state[ExtremumIndex(wtag[w])], z)]
    /\ m_answers' = ExtremumAnswered(m_answers, ExtremumIndex(wtag[w]))
    /\ wpc' = [wpc EXCEPT ![w] = "pop"]
    /\ UNCHANGED <<pc, driverLocals, inputVars, scalarVars, m_zeros, m_control,
                   m_zeros_state, m_questions, wtag>>

\* A tag that neither else-if of worker_thread takes: the loop goes back to
\* its pop and nothing is answered.
WorkerDrop(w) ==
    /\ wpc[w] = "work"
    /\ TagKind(wtag[w]) = "none"
    /\ wpc' = [wpc EXCEPT ![w] = "pop"]
    /\ UNCHANGED <<pc, driverLocals, inputVars, scalarVars, m_zeros, m_control,
                   m_zeros_state, m_extrema_state, m_questions, m_answers, wtag>>

(***************************************************************************)
(* ~remez_solver                                                           *)
(***************************************************************************)
DtorPush ==
    /\ pc = "dtor_push"
    /\ m_questions' = Append(m_questions, QuitTag)
    /\ IF idx + 1 < NumWorkers
       THEN idx' = idx + 1 /\ pc' = "dtor_push"
       ELSE idx' = 0 /\ pc' = "dtor_pop"
    /\ UNCHANGED <<finished, cur, old_error, iter, done, inputVars, scalarVars, m_zeros,
                   m_control, m_zeros_state, m_extrema_state, m_answers,
                   workerVars>>

DtorPop ==
    /\ pc = "dtor_pop"
    /\ m_answers # <<>>
    /\ m_answers' = Tail(m_answers)
    /\ IF finished + 1 < NumWorkers
       THEN finished' = finished + 1 /\ pc' = "dtor_pop"
       ELSE finished' = 0 /\ pc' = "done"
    /\ UNCHANGED <<idx, cur, old_error, iter, done, inputVars, scalarVars, m_zeros,
                   m_control, m_zeros_state, m_extrema_state, m_questions,
                   workerVars>>

Driver ==
    \/ MainFail \/ MainConstant \/ DoInit
    \/ DoStepBegin
    \/ FindExtremaInit \/ FindExtremaPost \/ FindExtremaPop \/ FindExtremaCheck
    \/ RemezStep \/ DoStepTest
    \/ FindZerosInit \/ FindZerosPost \/ FindZerosPop \/ FindZerosCheck
    \/ DtorPush \/ DtorPop

Worker(w) ==
    \/ WorkerPop(w) \/ WorkerQuit(w) \/ WorkerRootStep(w) \/ WorkerExtremaStep(w)

Next == Driver \/ \E w \in Workers : Worker(w)

Spec == Init /\ [][Next]_vars

(***************************************************************************)
(* main's loop as written, for (iteration = 0; ; ++iteration), with no     *)
(* limit on the iterations, run with the bisecting root finder, every      *)
(* thread scheduled fairly: the driver takes its next step, a worker's     *)
(* blocking pop returns when a question is queued, and a worker holding a  *)
(* job finishes it.  A worker's step on a job is enabled exactly while     *)
(* wpc[w] = "work" and ends with wpc[w] # "work", so that weak fairness of *)
(* that step is []<>(wpc[w] # "work").                                     *)
(***************************************************************************)
DriverLoop ==
    \/ MainFail \/ MainConstant \/ DoInit
    \/ DoStepEnter
    \/ FindExtremaInit \/ FindExtremaPost \/ FindExtremaPop \/ FindExtremaCheck
    \/ RemezStep \/ DoStepTest
    \/ FindZerosInit \/ FindZerosPost \/ FindZerosPop \/ FindZerosCheck
    \/ DtorPush \/ DtorPop

NextLoop == DriverLoop \/ \E w \in Workers : Worker(w)

WorkerFair(w) ==
    /\ WF_vars(WorkerPop(w) \/ WorkerQuit(w))
    /\ []<>(wpc[w] # "work")

LoopInit == Init /\ m_rf = "bisect"

LoopSpec ==
    /\ LoopInit
    /\ [][NextLoop]_vars
    /\ WF_vars(DriverLoop)
    /\ \A w \in Workers : WorkerFair(w)

(***************************************************************************)
(* The fair specification.  The destructor's thread and the worker threads *)
(* are operating-system threads: a thread that can push, or whose blocking *)
(* pop can return, is eventually scheduled.  Fairness is asked only of the *)
(* steps of the shutdown protocol: the destructor's pushes and pops, and a *)
(* worker's pop and its echo of the sentinel.                              *)
(***************************************************************************)
Fairness ==
    /\ WF_vars(DtorPush \/ DtorPop)
    /\ \A w \in Workers : WF_vars(WorkerPop(w) \/ WorkerQuit(w))

FairSpec == Init /\ [][Next]_vars /\ Fairness

(***************************************************************************)
(* main alone, from its first read of an option to its call of do_init, to *)
(* FAIL's exit, or to the return of the constant special case.             *)
(***************************************************************************)
NextMain ==
    \/ MainDegree \/ MainRange \/ MainBits \/ MainXmin \/ MainXmax
    \/ MainExpr \/ MainWeight \/ DoInit

MainSpec == MainInit /\ [][NextMain]_vars

(***************************************************************************)
(* remez_step's statement system = system.inverse(), alone: the call, then *)
(* the assignment of what it returned.  Nothing in inverse or in its       *)
(* caller looks at whether a diagonal term was zero.                       *)
(***************************************************************************)
SystemInverse ==
    /\ pc = "rs_inverse"
    /\ \E z \in RatDivZeroValues : inv' = inverse(system, z)
    /\ pc' = "rs_assign"
    /\ UNCHANGED <<system, solverInputs>>

SystemAssign ==
    /\ pc = "rs_assign"
    /\ system' = inv
    /\ pc' = "rs_estimate"
    /\ UNCHANGED <<inv, solverInputs>>

NextMatrix == SystemInverse \/ SystemAssign

MatrixSpec == MatrixInit /\ [][NextMatrix]_vars

(***************************************************************************)
(* main from its parse of the function, with no option given, to its call  *)
(* of do_init, to FAIL's exit, or through the return of the constant       *)
(* special case and the destructor of the solver that return runs, with    *)
(* the workers' threads scheduled fairly.                                  *)
(***************************************************************************)
CalcInit ==
    /\ pc = "m_expr"
    /\ m_order = DefaultOrder
    /\ m_rf = "pegasus"
    /\ SolverInit
    /\ cli = NoOptions
    /\ str_xmin = <<"-", "1">> /\ str_xmax = <<"1">>
    /\ ex = parse(parse(EmptyExpression, str_xmin).ex, str_xmax).ex
    /\ str = str_xmax /\ ret = TRUE
    /\ xmin = eval(parse(EmptyExpression, str_xmin).ex, 0, 0)
    /\ xmax = eval(ex, 0, 0)
    /\ out = <<>> /\ status = "running"
    /\ system = <<>> /\ inv = <<>>

\* The first find_extrema of lolremez -d LargeOrder, at the state where its
\* posting loop has returned, worker 1 has taken and answered every tag but
\* the last, one after the other, and the last tag is still queued; rand()
\* drew 2/5 each time and a quotient by zero gave 0.
LargeOrder == 999

LargeInit ==
    /\ pc = "fe_pop"
    /\ idx = 0 /\ finished = 0 /\ cur = 0 /\ old_error = 0 /\ iter = 0
    /\ m_order = LargeOrder /\ m_rf = "pegasus" /\ m_func \in Funcs
    /\ m_k1 = Div(m_xmax + m_xmin, 2, 0)
    /\ m_k2 = Div(m_xmax - m_xmin, 2, 0)
    /\ m_epsilon = Epsilon /\ m_error = 0
    /\ m_estimate \in InitEstimates(m_order)
    /\ m_zeros = [i \in 0..m_order |-> InitialZero(m_order, i)]
    /\ m_control = [i \in 0..(m_order + 1) |->
                       IF i = 0 THEN -Scale ELSE IF i = m_order + 1 THEN Scale ELSE 0]
    /\ m_zeros_state = [i \in 0..m_order |-> NewBracket]
    /\ first = [i \in 0..(m_order + 1) |-> ExtremaBracket(i, <<2, 5>>)]
    /\ m_extrema_state = [i \in 0..(m_order + 1) |->
                             IF i <= m_order THEN ExtremaStep(first[i], 0)
                                             ELSE first[i]]
    /\ m_questions = <<m_order + 1 + ExtremaTagBase>>
    /\ m_answers = [k \in 1..(m_order + 1) |-> k - 1 + ExtremaTagBase]
    /\ wpc = [w \in Workers |-> "pop"]
    /\ wtag = [w \in Workers |-> IF w = 1 THEN m_order + ExtremaTagBase ELSE 0]
    /\ done = {}
    /\ MainLocals
    /\ system = <<>> /\ inv = <<>>

\* lolremez --bisect -d 1 "0.5+0.1875*x" at its call of do_init: a function the
\* polynomial of remez_step can fit exactly.
FitInit ==
    /\ pc = "main"
    /\ m_order \in Orders
    /\ m_rf = "bisect"
    /\ SolverInitWith({"affine"})
    /\ MainLocals
    /\ system = <<>> /\ inv = <<>>

FitSpec == FitInit /\ [][NextLoop]_vars

\* find_zeros with bisection, at its entry, for the inputs it reads: the
\* control points, any N + 2 points of the range in order, and the estimate
\* remez_step has left.  What it overwrites is as do_init left it.
ControlPoints ==
    {c \in [0..(Max(Orders) + 1) -> (-Scale)..Scale] :
        \A i \in 0..Max(Orders) : c[i] <= c[i + 1]}

ZerosInit ==
    /\ pc = "fz_init"
    /\ idx = 0 /\ finished = 0 /\ cur = 0 /\ old_error = 0 /\ iter = 0
    /\ m_order = Max(Orders) /\ m_rf = "bisect" /\ m_func \in Funcs \cup {"affine"}
    /\ m_k1 = Div(m_xmax + m_xmin, 2, 0)
    /\ m_k2 = Div(m_xmax - m_xmin, 2, 0)
    /\ m_epsilon = Epsilon /\ m_error = 0
    /\ m_estimate \in StepEstimates(m_order)
    /\ m_zeros = [i \in 0..m_order |-> InitialZero(m_order, i)]
    /\ m_control \in ControlPoints
    /\ m_zeros_state = [i \in 0..m_order |-> NewBracket]
    /\ m_extrema_state = [i \in 0..(m_order + 1) |->
                             [k \in 0..2 |-> Point(m_control[i], 0)]]
    /\ m_questions = <<>> /\ m_answers = <<>>
    /\ wpc = [w \in Workers |-> "pop"]
    /\ wtag = [w \in Workers |-> 0]
    /\ done = {}
    /\ first = <<>>
    /\ MainLocals
    /\ system = <<>> /\ inv = <<>>

DriverZeros == FindZerosInit \/ FindZerosPost \/ FindZerosPop \/ FindZerosCheck

NextZeros == DriverZeros \/ \E w \in Workers : WorkerPop(w) \/ WorkerRootStep(w)

ZerosSpec ==
    /\ ZerosInit
    /\ [][NextZeros]_vars
    /\ WF_vars(DriverZeros)
    /\ \A w \in Workers : WF_vars(WorkerPop(w)) /\ WF_vars(WorkerRootStep(w))

NextLarge ==
    \/ FindExtremaPop \/ FindExtremaCheck
    \/ \E w \in Workers : WorkerPop(w) \/ WorkerDrop(w)

LargeSpec == LargeInit /\ [][NextLarge]_vars

NextCalc ==
    \/ MainExpr \/ MainWeight \/ DoInit
    \/ DtorPush \/ DtorPop
    \/ \E w \in Workers : WorkerPop(w) \/ WorkerQuit(w)

CalcSpec == CalcInit /\ [][NextCalc]_vars /\ Fairness

(***************************************************************************)
(* Vocabulary of the properties.                                           *)
(***************************************************************************)
RECURSIVE Count(_, _)
Count(q, t) ==
    IF q = <<>> THEN 0
    ELSE (IF Head(q) = t THEN 1 ELSE 0) + Count(Tail(q), t)

Holding(t) == {w \in Workers : wpc[w] = "work" /\ wtag[w] = t}

\* The jobs for tag t in flight: queued, being processed, answered.
Outstanding(t) ==
    Count(m_questions, t) + Cardinality(Holding(t)) + Count(m_answers, t)

ZeroTags == {i : i \in DOMAIN m_zeros_state}
ExtremaTags == {i + ExtremaTagBase : i \in DOMAIN m_extrema_state}

InFindZeros == pc \in {"fz_init", "fz_post", "fz_pop", "fz_check"}
InFindExtrema == pc \in {"fe_init", "fe_post", "fe_pop", "fe_check"}

\* The brackets a worker is between popping the tag of and answering.
WorkerBrackets ==
    {<<"zero", ZeroIndex(wtag[w])>> :
        w \in {v \in Workers : wpc[v] = "work" /\ TagKind(wtag[v]) = "zero"}}
    \cup
    {<<"extremum", ExtremumIndex(wtag[w])>> :
        w \in {v \in Workers : wpc[v] = "work" /\ TagKind(wtag[v]) = "extremum"}}

\* The bracket the driver is initialising (up to its post) or has popped the
\* answer of (up to its repost or its completion).
DriverBrackets ==
    CASE pc \in {"fz_init", "fz_post"} -> {<<"zero", idx>>}
      [] pc = "fz_check"               -> {<<"zero", cur>>}
      [] pc \in {"fe_init", "fe_post"} -> {<<"extremum", idx>>}
      [] pc = "fe_check"               -> {<<"extremum", cur>>}
      [] OTHER                         -> {}

Quiescent ==
    /\ m_questions = <<>>
    /\ m_answers = <<>>
    /\ \A w \in Workers : wpc[w] # "work"

(***************************************************************************)
(* C1. Per-index serialisation: in find_zeros and find_extrema every tag   *)
(* has at most one job in flight, counting the questions queue, the jobs   *)
(* the workers hold and the answers queue; so no two workers hold the same *)
(* tag.                                                                    *)
(***************************************************************************)
C1_PerIndexSerialisation ==
    (InFindZeros \/ InFindExtrema) =>
        /\ \A t \in ZeroTags \cup ExtremaTags : Outstanding(t) <= 1
        /\ \A v, w \in Workers :
              (v # w /\ wpc[v] = "work" /\ wpc[w] = "work") => wtag[v] # wtag[w]

\* Two workers refine two brackets at once while a third job has been answered
\* and a bracket's job is in flight for at least the second time.
C1_Witness ==
    /\ pc = "fe_pop"
    /\ \E v, w \in Workers : v # w /\ wpc[v] = "work" /\ wpc[w] = "work"
    /\ Len(m_answers) = 1
    /\ \E w \in Workers :
          /\ wpc[w] = "work"
          /\ TagKind(wtag[w]) = "extremum"
          /\ m_extrema_state[ExtremumIndex(wtag[w])][2].x
               \notin {ExtremaBracket(ExtremumIndex(wtag[w]), u)[2].x : u \in RandFractions}

(***************************************************************************)
(* C2. Bracket ownership: a bracket changes only when the driver           *)
(* initialises it in the posting loop or when the worker holding its tag   *)
(* finishes a step; and the bracket the driver is initialising or has      *)
(* popped the answer of is never one a worker holds the tag of.            *)
(***************************************************************************)
C2_NoSharedBracket == DriverBrackets \cap WorkerBrackets = {}

C2_Writers ==
    /\ \A i \in DOMAIN m_zeros_state :
          m_zeros_state'[i] # m_zeros_state[i] =>
              \/ pc = "fz_init" /\ idx = i /\ pc' = "fz_post"
              \/ \E w \in Workers :
                    /\ wpc[w] = "work" /\ wpc'[w] = "pop"
                    /\ TagKind(wtag[w]) = "zero" /\ ZeroIndex(wtag[w]) = i
    /\ \A i \in DOMAIN m_extrema_state :
          m_extrema_state'[i] # m_extrema_state[i] =>
              \/ pc = "fe_init" /\ idx = i /\ pc' = "fe_post"
              \/ \E w \in Workers :
                    /\ wpc[w] = "work" /\ wpc'[w] = "pop"
                    /\ TagKind(wtag[w]) = "extremum" /\ ExtremumIndex(wtag[w]) = i

C2_BracketOwnership == [](C2_NoSharedBracket) /\ [][C2_Writers]_vars

\* The driver reads the popped zero bracket while a worker refines another.
C2_Witness ==
    /\ pc = "fz_check"
    /\ \E w \in Workers :
          /\ wpc[w] = "work"
          /\ TagKind(wtag[w]) = "zero"
          /\ ZeroIndex(wtag[w]) # cur

(***************************************************************************)
(* C3. The estimate, k1, k2 and epsilon are fixed during a phase: whenever *)
(* the driver is in do_init / remez_init or in remez_step, and whenever    *)
(* one of the four changes, both queues are empty and no worker holds a    *)
(* job.                                                                    *)
(***************************************************************************)
C3_WritesQuiescent ==
    (m_estimate' # m_estimate \/ m_k1' # m_k1 \/ m_k2' # m_k2
        \/ m_epsilon' # m_epsilon) => Quiescent

C3_PhaseQuiescent ==
    /\ [](pc \in {"main", "remez_step"} => Quiescent)
    /\ [][C3_WritesQuiescent]_vars

\* remez_step is about to run for the second time, after the workers worked.
C3_Witness == pc = "remez_step" /\ iter = 1 /\ Quiescent

(***************************************************************************)
(* C4. Shutdown: the destructor pushes one negative tag per worker; a      *)
(* worker holding a negative tag echoes it on answers and exits, touching  *)
(* no bracket, and never runs again; every sentinel pushed is queued, held *)
(* or consumed by exactly one exited worker; and once the destructor has   *)
(* started, it completes with all workers exited and both queues empty.    *)
(***************************************************************************)
SentinelsPushed ==
    CASE pc = "dtor_push"             -> idx
      [] pc \in {"dtor_pop", "done"}  -> NumWorkers
      [] OTHER                        -> 0

SentinelsPopped ==
    CASE pc = "dtor_pop" -> finished
      [] pc = "done"     -> NumWorkers
      [] OTHER           -> 0

Exited == {w \in Workers : wpc[w] = "exited"}

C4_Conservation ==
    /\ Count(m_questions, QuitTag) + Cardinality(Holding(QuitTag))
          + Cardinality(Exited) = SentinelsPushed
    /\ Cardinality(Exited) = Count(m_answers, QuitTag) + SentinelsPopped

C4_WorkerExit ==
    \A w \in Workers :
        /\ (wpc[w] = "work" /\ wtag[w] < 0 /\ wpc'[w] # "work") =>
              /\ wpc'[w] = "exited"
              /\ m_answers' = Append(m_answers, wtag[w])
              /\ UNCHANGED <<m_zeros_state, m_extrema_state>>
        /\ wpc[w] = "exited" => wpc'[w] = "exited"

ShutDown ==
    /\ pc = "done"
    /\ Exited = Workers
    /\ m_questions = <<>>
    /\ m_answers = <<>>

C4_Shutdown ==
    /\ [](C4_Conservation)
    /\ [][C4_WorkerExit]_vars
    /\ (pc = "dtor_push" ~> ShutDown)

\* The destructor has completed after a run that converged.
C4_Witness == ShutDown /\ iter >= 1

(***************************************************************************)
(* C5. Job-tag dispatch: a worker finishing a job with tag t in [0, 1000)  *)
(* has applied one root-finding step to zeros_state[t], and with t in      *)
(* [1000, 2000) one extremum step to extrema_state[t - 1000]; it changes   *)
(* no other bracket and appends exactly the answer t.                      *)
(***************************************************************************)
C5_Step(w) ==
    LET t == wtag[w]
    IN  (wpc[w] = "work" /\ t >= 0 /\ wpc'[w] # "work") =>
          /\ wpc'[w] = "pop"
          /\ m_answers' = Append(m_answers, t)
          /\ (t < 1000) =>
                /\ \E z \in DivZeroValues :
                      m_zeros_state'[t] = RootStep(m_rf, m_zeros_state[t], z)
                /\ \A j \in DOMAIN m_zeros_state \ {t} :
                      m_zeros_state'[j] = m_zeros_state[j]
                /\ m_extrema_state' = m_extrema_state
          /\ (t >= 1000 /\ t < 2000) =>
                /\ \E z \in DivZeroValues :
                      m_extrema_state'[t - 1000] =
                          ExtremaStep(m_extrema_state[t - 1000], z)
                /\ \A j \in DOMAIN m_extrema_state \ {t - 1000} :
                      m_extrema_state'[j] = m_extrema_state[j]
                /\ m_zeros_state' = m_zeros_state

C5_JobTagDispatch == [][\A w \in Workers : C5_Step(w)]_vars

\* A root-finding job has been answered and its bracket holds the step's result.
C5_Witness ==
    /\ pc = "fz_pop"
    /\ m_answers # <<>>
    /\ TagKind(Head(m_answers)) = "zero"
    /\ m_zeros_state[Head(m_answers)][2].x \in
          {m_zeros_state[Head(m_answers)][0].x, m_zeros_state[Head(m_answers)][1].x}


(***************************************************************************)
(* C6. Zero-bracket initialisation: once find_zeros has initialised        *)
(* bracket i, and before any worker step on it, a.x = control[i],          *)
(* b.x = control[i+1], a.err and b.err are estimate - f at a.x and b.x,    *)
(* and the bracket's third point has err = 0.                              *)
(***************************************************************************)
C6_ZeroBracketInit ==
    pc = "fz_post" =>
        LET br == m_zeros_state[idx]
        IN  /\ br[0].x = m_control[idx]
            /\ br[1].x = m_control[idx + 1]
            /\ br[0].err = Sat(eval_estimate(br[0].x) - eval_func(br[0].x))
            /\ br[1].err = Sat(eval_estimate(br[1].x) - eval_func(br[1].x))
            /\ br[2].err = 0

(***************************************************************************)
(* C7. find_zeros completion: popping the answer for index i, the driver   *)
(* finishes bracket i iff c.err = 0 or |a.x - b.x| <= epsilon; it then     *)
(* sets zeros[i] = c.x and posts nothing, and otherwise reposts tag i and  *)
(* leaves zeros alone.  A finished index has no job in flight, no index is *)
(* finished twice, and find_zeros returns when all N+1 indices have been   *)
(* finished, with both queues empty.                                       *)
(***************************************************************************)
C7_Check ==
    (pc = "fz_check" /\ pc' # pc) =>
        LET br == m_zeros_state[cur]
        IN  IF br[2].err = 0 \/ Abs(br[0].x - br[1].x) <= m_epsilon
            THEN /\ m_zeros' = [m_zeros EXCEPT ![cur] = br[2].x]
                 /\ m_questions' = m_questions
                 /\ cur \notin done
                 /\ IF done \cup {cur} = 0..m_order
                    THEN pc' = "do_step" /\ m_questions' = <<>> /\ m_answers' = <<>>
                    ELSE pc' = "fz_pop" /\ finished' = finished + 1
            ELSE /\ m_questions' = Append(m_questions, cur)
                 /\ m_zeros' = m_zeros
                 /\ finished' = finished
                 /\ pc' = "fz_pop"

C7_Finished ==
    InFindZeros =>
        /\ finished = Cardinality(done)
        /\ \A i \in done : Outstanding(i) = 0

C7_FindZerosCompletion == [](C7_Finished) /\ [][C7_Check]_vars

\* After finishing one bracket, the driver is about to finish a bracket that
\* is still wide, because its c.err is zero.
C7_Witness ==
    /\ pc = "fz_check"
    /\ done # {}
    /\ m_zeros_state[cur][2].err = 0
    /\ Abs(m_zeros_state[cur][0].x - m_zeros_state[cur][1].x) > m_epsilon

(***************************************************************************)
(* C8. Degenerate zero bracket: a root-finding step on a bracket whose     *)
(* a.err and b.err have the same sign takes the midpoint (a.x + b.x) / 2   *)
(* as its candidate c.x, whatever the root finder.                         *)
(***************************************************************************)
C8_Step(w) ==
    LET t == wtag[w]
    IN  (/\ wpc[w] = "work" /\ TagKind(t) = "zero" /\ wpc'[w] = "pop"
         /\ Sign(m_zeros_state[t][0].err) * Sign(m_zeros_state[t][1].err) > 0)
        => m_zeros_state'[t][2].x = Midpoint(m_zeros_state[t][0], m_zeros_state[t][1])

C8_SameSignMidpoint == [][\A w \in Workers : C8_Step(w)]_vars

(***************************************************************************)
(* C9. Control endpoints.  As claimed: in every state after find_extrema   *)
(* has returned, control[0] = -1 and control[N+1] = +1.                    *)
(***************************************************************************)
AfterFindExtrema ==
    pc \in {"remez_step", "converge", "fz_init", "fz_post", "fz_pop", "fz_check"}

C9_EndpointsClamped ==
    AfterFindExtrema => m_control[0] = -Scale /\ m_control[m_order + 1] = Scale

(***************************************************************************)
(* C9, amended.  Inside find_extrema, control[0] = -1 until bracket 0 is   *)
(* finished and control[N+1] = +1 until bracket N+1 is finished; after     *)
(* find_extrema has returned, control[0] and control[N+1] are the c.x of   *)
(* the finished brackets 0 and N+1.                                        *)
(***************************************************************************)
C9_EndpointsFromBrackets ==
    /\ (InFindExtrema /\ 0 \notin done) => m_control[0] = -Scale
    /\ (InFindExtrema /\ (m_order + 1) \notin done) => m_control[m_order + 1] = Scale
    /\ AfterFindExtrema =>
          /\ m_control[0] = m_extrema_state[0][2].x
          /\ m_control[m_order + 1] = m_extrema_state[m_order + 1][2].x

\* find_extrema has returned with an extremum inside the first interval.
C9_Witness ==
    /\ pc = "remez_step"
    /\ m_control[0] # -Scale
    /\ m_control[0] = m_extrema_state[0][2].x

(***************************************************************************)
(* C10. do_step: it saves old_error = error, runs find_extrema, then       *)
(* remez_step, and returns false (main leaves its loop) exactly when       *)
(* error >= 0 and |error - old_error| < error * epsilon; otherwise it runs *)
(* find_zeros and returns true.  find_zeros is entered from nowhere else,  *)
(* and zeros[] changes only inside it.                                     *)
(***************************************************************************)
C10_Step ==
    /\ (pc = "do_step" /\ pc' # pc) => (old_error' = m_error /\ pc' = "fe_init")
    /\ (InFindExtrema /\ ~InFindExtrema') => pc' = "remez_step"
    /\ (pc = "remez_step" /\ pc' # pc) => pc' = "converge"
    /\ (pc = "converge" /\ pc' # pc) =>
          IF m_error >= 0 /\ Abs(m_error - old_error) * Scale < m_error * m_epsilon
          THEN pc' = "dtor_push"
          ELSE pc' = "fz_init"
    /\ (~InFindZeros /\ InFindZeros') => pc = "converge"
    /\ (InFindZeros /\ ~InFindZeros') => pc' = "do_step"
    /\ (pc \notin {"main", "fz_check"}) => m_zeros' = m_zeros

C10_DoStepOrder == [][C10_Step]_vars

\* do_step has returned false in an iteration after the first.
C10_Witness == pc = "dtor_push" /\ idx = 0 /\ iter >= 1 /\ m_error > 0

(***************************************************************************)
(* C11. Driver termination: main's loop of do_step calls ends, whether or  *)
(* not the convergence test ever succeeds: every run reaches the end of    *)
(* the destructor or FAIL's exit.                                          *)
(***************************************************************************)
C11_LoopTerminates == <>(pc \in {"done", "failed"})

(***************************************************************************)
(* Vocabulary of the claims about main and its expression object.          *)
(***************************************************************************)
\* The steps in which main calls ex.parse on an object that holds the
\* program of an earlier, successful call.
Reparse == pc \in {"m_xmax", "m_expr", "m_weight"} /\ pc' # pc /\ str' # <<>> /\ ret

(* C12. Parse failure leaves state unchanged: when a call of parse on an   *)
(* object that holds a successfully parsed program returns false, m_ops    *)
(* and m_constants are what they were before the call.                     *)
C12_FailedParseKeepsProgram ==
    [][(Reparse /\ ~ret') => (ex'.ops = ex.ops /\ ex'.consts = ex.consts)]_vars


\* ex holds the program of a successful call of parse.
Parsed == str # <<>> /\ ret

EvalPoints == {-Scale, 0, Scale}

(* C13. Stack discipline: on the program of a successful parse, eval never *)
(* pops from an empty stack and reaches its end with exactly one value on  *)
(* the stack, and every constant opcode's index is a position of           *)
(* m_constants.                                                            *)
C13_StackDiscipline ==
    Parsed =>
        /\ \A x \in EvalPoints, z \in DivZeroValues :
              LET r == EvalStack(ex, x, z)
              IN  ~r.undefined /\ Len(r.stack) = 1
        /\ \A i \in 1..Len(ex.ops) :
              ex.ops[i][1] = "constant" => ex.ops[i][2] \in 0..(Len(ex.consts) - 1)

C13_Witness ==
    /\ Parsed
    /\ Len(ex.ops) >= 6
    /\ \E i \in 1..Len(ex.ops) : ex.ops[i][1] = "sin"
    /\ \E i \in 1..Len(ex.ops) : ex.ops[i] = <<"constant", 0>>
    /\ Len(EvalStack(ex, Scale, 0).stack) = 1

\* The text handed to parse names the variable x.
NamesX(t) == \E i \in 1..Len(t) : t[i] = "x"

(* C14. is_constant() is true of a parsed program exactly when it has no x *)
(* opcode, that is when the text parsed does not name x (numbers, named    *)
(* constants and y do not count); it is false for "5*x" and true for       *)
(* "sin(pi/4)".                                                            *)
C14_ConstantIffNoX ==
    /\ Parsed => (is_constant(ex) <=> ~NamesX(str))
    /\ str = <<"5", "*", "x">> => (ret /\ ~is_constant(ex))
    /\ str = <<"sin", "(", "pi", "/", "4", ")">> => (ret /\ is_constant(ex))

C14_Witness ==
    /\ str = <<"sin", "(", "pi", "/", "4", ")">>
    /\ is_constant(ex)
    /\ status = "EXIT_SUCCESS"

\* The program of a text parsed alone, and the program that runs e then f:
\* f's constants follow e's in the table.
ProgramOf(t) == parse(EmptyExpression, t).ex

Then(e, f) ==
    [e EXCEPT !.ops = @ \o [i \in 1..Len(f.ops) |->
                              IF f.ops[i][1] = "constant"
                              THEN <<"constant", f.ops[i][2] + Len(e.consts)>>
                              ELSE f.ops[i]],
              !.consts = @ \o f.consts]

Op(o) == Expression(<< <<o, -1>> >>, <<>>, <<>>)

(* C15. Unary minus binds looser than exponentiation: for terminals a and  *)
(* b the text "-a^b" (or with "**") parses, and its program is a's, then   *)
(* b's, then pow, then minus.                                              *)
C15_MinusAfterPow ==
    Len(str) > 3 =>
        \A a \in TerminalTexts, b \in TerminalTexts, p \in PowTokens :
            str = <<"-">> \o a \o <<p>> \o b =>
                ret /\ ex = Then(Then(Then(ProgramOf(a), ProgramOf(b)), Op("pow")), Op("minus"))

C15_Witness ==
    /\ str = <<"-", "x", "sup2", "^", "sin", "(", "x", ")">>
    /\ ret
    /\ ex.ops[Len(ex.ops)] = <<"minus", -1>>
    /\ ex.ops[Len(ex.ops) - 1] = <<"pow", -1>>

(* C16. Exponentiation chains are left-associative: for terminals a, b and *)
(* c the text "a^b^c" (with "^" or "**" at either place) parses, and its   *)
(* program is a's, b's, pow, c's, pow.                                     *)
C16_PowLeftAssociative ==
    Len(str) > 4 =>
        \A a \in TerminalTexts, b \in TerminalTexts, c \in ChainTails,
           p \in PowTokens, q \in PowTokens :
            str = a \o <<p>> \o b \o <<q>> \o c =>
                ret /\ ex = Then(Then(Then(Then(ProgramOf(a), ProgramOf(b)), Op("pow")),
                                      ProgramOf(c)), Op("pow"))

C16_Witness ==
    /\ str = <<"x", "^", "5", "**", "sin", "(", "x", ")">>
    /\ ret
    /\ ex.ops = << <<"x", -1>>, <<"constant", 0>>, <<"pow", -1>>,
                   <<"x", -1>>, <<"sin", -1>>, <<"pow", -1>> >>

\* main is past its validation: it has exited, returned, or reached do_init.
Validating == pc \in {"m_degree", "m_range", "m_bits", "m_xmin", "m_xmax", "m_expr", "m_weight"}

Parses(t) == parse(EmptyExpression, t).ret

ParsesConstant(t) == Parses(t) /\ is_constant(ProgramOf(t))

\* The invocation, as far as main has read it, is one of the invalid ones.
InvalidDegree == cli.degree # <<>> /\ cli.degree[1] < 1
InvalidPrecision == cli.bits # <<>> /\ (cli.bits[1] < MinBits \/ cli.bits[1] > MaxBits)
InvalidRange ==
    \/ cli.range # <<>> /\ Len(cli.range[1]) # 2
    \/ ~ParsesConstant(str_xmin)
    \/ ~ParsesConstant(str_xmax)
    \/ xmin >= xmax
InvalidFunction == pc \notin {"m_degree", "m_range", "m_bits", "m_xmin", "m_xmax", "m_expr"} /\ ~Parses(cli.expr)
InvalidWeight == cli.error # <<>> /\ ~Parses(cli.error[1])

\* Standard output holds a line that starts with "Error: ", then the hint.
ErrorReported ==
    \E i \in 1..(Len(out) - 1) : out[i][1] = "Error: " /\ out[i + 1] = <<UsageHint>>

Rejected == pc = "failed" /\ status = "EXIT_FAILURE" /\ ErrorReported

(* C19. Input validation: an invocation with a degree below 1, a precision *)
(* outside [32, 65535], a range that is not two expressions, a range side  *)
(* that does not parse or is not constant, xmin >= xmax, or a function or  *)
(* weight that does not parse ends with an "Error: " line and the usage    *)
(* hint on standard output and a non-zero exit status, without a call of   *)
(* do_init or do_step.                                                     *)
C19_InvalidInputRejected ==
    (~Validating /\ (InvalidDegree \/ InvalidPrecision \/ InvalidRange
                        \/ InvalidFunction \/ InvalidWeight))
        => Rejected

(***************************************************************************)
(* Vocabulary of the claims about linear_system.                           *)
(***************************************************************************)
\* The determinant of a 2 x 2 or 3 x 3 matrix of whole numbers.
Det(m) ==
    LET e(i, j) == m[i][j][1]
    IN  IF cols(m) = 2
        THEN e(0, 0) * e(1, 1) - e(0, 1) * e(1, 0)
        ELSE e(0, 0) * (e(1, 1) * e(2, 2) - e(1, 2) * e(2, 1))
           - e(0, 1) * (e(1, 0) * e(2, 2) - e(1, 2) * e(2, 0))
           + e(0, 2) * (e(1, 0) * e(2, 1) - e(1, 1) * e(2, 0))

RECURSIVE RatSum(_, _)
RatSum(f, n) == IF n = 0 THEN RatZero ELSE RatAdd(RatSum(f, n - 1), f[n - 1])

Product(m, b) ==
    [i \in DOMAIN m |-> [k \in DOMAIN m |->
        RatSum([j \in DOMAIN m |-> RatMul(m[i][j], b[j][k])], cols(m))]]

\* inverse() has returned to remez_step, whose system is still its argument.
Returned == pc = "rs_assign"

(* C17. A singular matrix is an error: inverse() applied to a singular     *)
(* system does not return a matrix to remez_step; the failure is reported  *)
(* and the process exits with a non-zero status.                           *)
C17_SingularIsAnError ==
    (pc \in {"rs_assign", "failed"} /\ Det(system) = 0)
        => (pc = "failed" /\ status = "EXIT_FAILURE")

(* C18. Inverse correctness: for a non-singular M, those whose zero        *)
(* diagonal terms take the add-row path included, the matrix B that        *)
(* M.inverse() returns has M * B = identity, and the call leaves M as it   *)
(* was.                                                                    *)
C18_InverseCorrect ==
    [][(pc = "rs_inverse" /\ Det(system) # 0)
          => (system' = system /\ Product(system', inv') = init(cols(system), RatOne))]_vars

C18_Witness ==
    /\ Returned
    /\ cols(system) = 3
    /\ Det(system) # 0
    /\ system[0][0] = RatZero /\ system[1][0] = RatZero
    /\ Product(system, inv) = init(3, RatOne)

\* do_step has returned false: main has left its loop and runs the
\* destructor, with a solver that do_init has initialised.
DoStepReturnedFalse == pc \in {"dtor_push", "dtor_pop", "done"} /\ m_control # <<>>

\* The extremum bracket j as find_extrema initialises it.
BracketLo(j) == IF j = 0 THEN -Scale ELSE m_zeros[j - 1]
BracketHi(j) == IF j = m_order + 1 THEN Scale ELSE m_zeros[j]

\* Bracket j holds grid points that are neither its ends nor next to both.
Resolved(j) == BracketHi(j) - BracketLo(j) > 2 * m_epsilon

(* C20. Alternation at convergence: once do_step has returned false,       *)
(* control[i] < zeros[i] < control[i+1] for every i in [0, N], with every  *)
(* root finder.                                                            *)
C20_Alternation ==
    DoStepReturnedFalse =>
        \A i \in 0..m_order : m_control[i] < m_zeros[i] /\ m_zeros[i] < m_control[i + 1]

(* C20, as far as the grid resolves it: the order holds with <= in every   *)
(* state where do_step has returned false, and with < at every extremum    *)
(* bracket wider than two epsilon.  In the narrower brackets the grid has  *)
(* no point strictly inside for c.x to take.                               *)
C20_AlternationResolved ==
    DoStepReturnedFalse =>
        \A i \in 0..m_order :
            /\ m_control[i] <= m_zeros[i] /\ m_zeros[i] <= m_control[i + 1]
            /\ Resolved(i) => m_control[i] < m_zeros[i]
            /\ Resolved(i + 1) => m_zeros[i] < m_control[i + 1]

(***************************************************************************)
(* Vocabulary of the claims about the outcome of a phase.                  *)
(***************************************************************************)
\* The brackets one worker step can leave br in, and the driver's test of it.
StepsOf(kind, br) ==
    IF kind = "zero" THEN {RootStep(m_rf, br, z) : z \in DivZeroValues}
    ELSE {ExtremaStep(br, z) : z \in DivZeroValues}

DoneOf(kind, br) == IF kind = "zero" THEN ZeroDone(br) ELSE ExtremaDone(br)

\* The brackets that steps taken one after the other, with no other thread
\* running, are first found finished in.
RECURSIVE Run(_, _, _)
Run(kind, frontier, seen) ==
    LET next == UNION {StepsOf(kind, b) : b \in frontier}
        cont == {b \in next : ~DoneOf(kind, b)} \ seen
    IN  {b \in next : DoneOf(kind, b)}
            \cup (IF cont = {} THEN {} ELSE Run(kind, cont, seen \cup cont))

Outcomes(kind, br) == Run(kind, {br}, {})


\* The phase has returned and the estimate is still the one it ran with.
FindExtremaReturned == pc = "remez_step"
FindZerosReturned == pc = "do_step" /\ DOMAIN first # {}

(***************************************************************************)
(* C21. Scheduling-independent result: what a phase leaves in zeros[],     *)
(* control[] and error is what the brackets its posting loop initialised   *)
(* (the inputs and the draws) give when each is refined alone, one step    *)
(* after the other: whatever the interleaving of the workers and the order *)
(* of the answers; and no step of a watch phase changes the estimate.      *)
(***************************************************************************)
C21_ExtremaOutcome ==
    FindExtremaReturned =>
        /\ \A i \in 0..(m_order + 1) :
              /\ m_extrema_state[i] \in Outcomes("extremum", first[i])
              /\ m_control[i] = m_extrema_state[i][2].x
        /\ m_error = Max({0} \cup {m_extrema_state[i][2].err : i \in 0..(m_order + 1)})

C21_ZerosOutcome ==
    FindZerosReturned =>
        \A i \in 0..m_order :
            /\ m_zeros_state[i] \in Outcomes("zero", first[i])
            /\ m_zeros[i] = m_zeros_state[i][2].x

C21_EstimateKept == (InFindZeros \/ InFindExtrema) => m_estimate' = m_estimate

C21_SchedulingIndependent ==
    /\ [](C21_ExtremaOutcome /\ C21_ZerosOutcome)
    /\ [][C21_EstimateKept]_vars

\* The second find_extrema has returned; every bracket had one outcome to
\* reach, was refined by at least one step, and the largest error is not the
\* one of the bracket finished last.
C21_Witness ==
    /\ pc = "remez_step" /\ iter = 1
    /\ \A i \in 0..(m_order + 1) :
          /\ Cardinality(Outcomes("extremum", first[i])) = 1
          /\ m_extrema_state[i] # first[i]
    /\ \E i, j \in 0..(m_order + 1) :
          m_extrema_state[i][2].err < m_extrema_state[j][2].err

(***************************************************************************)
(* C22. Calculator mode: when the function parses and is constant (its     *)
(* text does not name x), main prints its value and leaves with status 0   *)
(* for the destructor, without do_init or do_step having run; from then on *)
(* both queues and the workers hold shutdown sentinels only, and the       *)
(* destructor completes with every worker exited.                          *)
(***************************************************************************)
Calculator == status = "EXIT_SUCCESS"

C22_Return ==
    (pc = "m_expr" /\ pc' # pc /\ ret' /\ ~NamesX(str')) =>
        /\ Calculator'
        /\ pc' = "dtor_push"
        /\ Len(out') = Len(out) + 1
        /\ out'[Len(out')] \in {<<eval(ex', 0, z)>> : z \in DivZeroValues}
        /\ m_questions' = <<>>

C22_OnlySentinels ==
    Calculator =>
        /\ pc \in {"dtor_push", "dtor_pop", "done"}
        /\ \A k \in 1..Len(m_questions) : m_questions[k] = QuitTag
        /\ \A k \in 1..Len(m_answers) : m_answers[k] = QuitTag
        /\ \A w \in Workers : wpc[w] = "work" => wtag[w] = QuitTag
        /\ m_epsilon = 0 /\ m_estimate = <<>> /\ m_control = <<>>
        /\ m_zeros_state = <<>> /\ m_extrema_state = <<>>

C22_CalculatorMode ==
    /\ [][C22_Return]_vars
    /\ [](C22_OnlySentinels)
    /\ (Calculator ~> ShutDown)

\* The value of sin(pi/4) was printed, and the destructor has completed.
C22_Witness ==
    /\ Calculator /\ ShutDown
    /\ str = <<"sin", "(", "pi", "/", "4", ")">>
    /\ Len(out) = 1

(***************************************************************************)
(* Vocabulary of the claims about a worker's steps.                        *)
(***************************************************************************)
\* Worker w finishes a step on the zero bracket, or on the extremum bracket,
\* of its tag.
RootStepBy(w) == wpc[w] = "work" /\ TagKind(wtag[w]) = "zero" /\ wpc'[w] = "pop"
ExtremaStepBy(w) == wpc[w] = "work" /\ TagKind(wtag[w]) = "extremum" /\ wpc'[w] = "pop"

(***************************************************************************)
(* C23. Root-step classification: a step on a zero bracket replaces by the *)
(* candidate c an endpoint ps whose err had the sign of c.err, and keeps   *)
(* the other endpoint pd, whose err had a sign different from c.err's; the *)
(* x of pd is not changed.                                                 *)
(***************************************************************************)
C23_Step(w) ==
    LET br == m_zeros_state[wtag[w]]
        nb == m_zeros_state'[wtag[w]]
    IN  RootStepBy(w) =>
            \E ps \in {0, 1} :
                /\ nb[ps] = nb[2]
                /\ nb[1 - ps].x = br[1 - ps].x
                /\ Sign(br[ps].err) = Sign(nb[2].err)
                /\ Sign(br[1 - ps].err) # Sign(nb[2].err)

C23_Classification == [][\A w \in Workers : C23_Step(w)]_vars

(***************************************************************************)
(* C24. Dampening rule: a step on a zero bracket leaves the x of the kept  *)
(* endpoint pd alone, and changes pd.err only when sign(c.err) *           *)
(* sign(old c.err) > 0, then to pd.err / 2 (illinois), pd.err * old_c.err  *)
(* / (old_c.err + c.err) (pegasus), pd.err * (1 - c.err / ps.err - c.err / *)
(* pd.err) (ford); with bisect and regula_falsi no step changes it.        *)
(***************************************************************************)
C24_Kept(br, nb, ps) ==
    LET pd == 1 - ps
        c == nb[2]
        old_c_err == br[2].err
        damps == Sign(c.err) * Sign(old_c_err) > 0
        halved == {Div(br[pd].err, 2, z) : z \in DivZeroValues}
        scaled == {Sat(Div(br[pd].err * old_c_err, old_c_err + c.err, z)) :
                      z \in DivZeroValues}
        ford == {Sat(br[pd].err - Div(c.err * br[pd].err, br[ps].err, z)
                               - Div(c.err * br[pd].err, br[pd].err, z)) :
                      z \in DivZeroValues}
    IN  /\ nb[ps] = c
        /\ nb[pd].x = br[pd].x
        /\ (~damps \/ m_rf \in {"bisect", "regula_falsi"}) => nb[pd].err = br[pd].err
        /\ (damps /\ m_rf = "illinois") => nb[pd].err \in halved
        /\ (damps /\ m_rf = "pegasus") => nb[pd].err \in scaled
        /\ (damps /\ m_rf = "ford") => nb[pd].err \in ford

C24_Step(w) ==
    RootStepBy(w) =>
        \E ps \in {0, 1} :
            C24_Kept(m_zeros_state[wtag[w]], m_zeros_state'[wtag[w]], ps)

C24_DampeningRule == [][\A w \in Workers : C24_Step(w)]_vars

\* Pegasus has scaled down the err of a kept endpoint: the bracket holds an
\* endpoint whose err is neither zero nor the error of the estimate at its x.
C24_Witness ==
    /\ pc = "fz_pop" /\ m_rf = "pegasus"
    /\ \E i \in DOMAIN m_zeros_state : \E k \in {0, 1} :
          LET p == m_zeros_state[i][k]
          IN  /\ p.err # 0
              /\ p.err # Sat(eval_estimate(p.x) - eval_func(p.x))
              /\ m_zeros_state[i][1 - k] = m_zeros_state[i][2]

(***************************************************************************)
(* C25. Extremum step update: the candidate d.x is the parabola's vertex   *)
(* when that is strictly inside (a.x, b.x) and the midpoint (a.x + b.x)/2  *)
(* otherwise; if d.err < c.err the endpoint on d's side of c (b if d.x >   *)
(* c.x, else a) becomes d and c is unchanged; otherwise the endpoint on    *)
(* the opposite side becomes the old c and c becomes d.                    *)
(***************************************************************************)
C25_Update(br, nb, z) ==
    LET a == br[0]
        b == br[1]
        c == br[2]
        vertex == Parabolic(a, b, c, z)
        inside == a.x < vertex /\ vertex < b.x
        d == IF inside THEN Point(vertex, eval_error(vertex))
                       ELSE Point(Div(a.x + b.x, 2, 0), eval_error(Div(a.x + b.x, 2, 0)))
        side == IF d.x > c.x THEN 1 ELSE 0
    IN  IF d.err < c.err
        THEN nb[side] = d /\ nb[1 - side] = br[1 - side] /\ nb[2] = c
        ELSE nb[1 - side] = c /\ nb[side] = br[side] /\ nb[2] = d

C25_Step(w) ==
    ExtremaStepBy(w) =>
        \E z \in DivZeroValues :
            C25_Update(m_extrema_state[ExtremumIndex(wtag[w])],
                       m_extrema_state'[ExtremumIndex(wtag[w])], z)

C25_ExtremumUpdate == [][\A w \in Workers : C25_Step(w)]_vars

\* Both cases have happened as the first step of a bracket: one bracket has a
\* new c and its old c as an endpoint, another its old c and a new endpoint.
C25_Witness ==
    /\ pc = "fe_pop"
    /\ \E i \in DOMAIN first : \E k \in {0, 1} :
          /\ i \in DOMAIN m_extrema_state
          /\ m_extrema_state[i][2] # first[i][2]
          /\ m_extrema_state[i][k] = first[i][2]
          /\ m_extrema_state[i][1 - k] = first[i][1 - k]
    /\ \E j \in DOMAIN first : \E k \in {0, 1} :
          /\ j \in DOMAIN m_extrema_state
          /\ m_extrema_state[j][2] = first[j][2]
          /\ m_extrema_state[j][k] # first[j][k]
          /\ m_extrema_state[j][k].x # first[j][2].x
          /\ m_extrema_state[j][1 - k] = first[j][1 - k]

(***************************************************************************)
(* C26. find_extrema completion: error is reset to 0 when the phase        *)
(* starts; bracket i is finished at the first answer for i at which b.x -  *)
(* a.x <= epsilon, and control[i] = c.x then; an unfinished bracket is     *)
(* posted again and a finished one has no job left, so each of the N + 2   *)
(* indices is finished exactly once; when find_extrema returns, error is   *)
(* the maximum of 0 and the final c.err of all N + 2 brackets.             *)
(***************************************************************************)
ExtremaIndices == 0..(m_order + 1)

C26_Reset == (pc = "do_step" /\ pc' = "fe_init") => m_error' = 0

C26_Answer ==
    (pc = "fe_check" /\ pc' # "fe_check") =>
        LET br == m_extrema_state[cur]
            narrow == br[1].x - br[0].x <= m_epsilon
            finishes == done' = done \cup {cur} \/ pc' = "remez_step"
        IN  /\ cur \in ExtremaIndices \ done
            /\ narrow <=> finishes
            /\ narrow => m_control'[cur] = br[2].x
            /\ ~narrow => /\ m_questions' = Append(m_questions, cur + ExtremaTagBase)
                          /\ m_control' = m_control
            /\ pc' = "remez_step" =>
                  /\ done \cup {cur} = ExtremaIndices
                  /\ m_error' = Max({0} \cup {m_extrema_state[i][2].err :
                                                  i \in ExtremaIndices})

C26_FinishedOnce ==
    InFindExtrema =>
        /\ Cardinality(done) = finished
        /\ \A i \in done : Outstanding(i + ExtremaTagBase) = 0
        /\ \A i \in done : m_control[i] = m_extrema_state[i][2].x

C26_FindExtremaCompletion ==
    /\ [][C26_Reset /\ C26_Answer]_vars
    /\ [](C26_FinishedOnce)

\* find_extrema has returned a positive error after a bracket went through
\* more than its first answer.
C26_Witness ==
    /\ pc = "remez_step"
    /\ m_error > 0
    /\ \A i \in ExtremaIndices : m_control[i] = m_extrema_state[i][2].x
    /\ \E i \in ExtremaIndices :
          m_extrema_state[i] \notin {ExtremaStep(first[i], z) : z \in DivZeroValues}

(***************************************************************************)
(* C27. Bisection converges in fixed time: with root_finder bisect every   *)
(* worker step on a zero bracket replaces one endpoint by the midpoint, so *)
(* |a.x - b.x| is halved by each step (to the grid's rounding) and a       *)
(* bracket of initial width w is finished after at most                    *)
(* ceil(log2(w/epsilon)) steps; find_zeros terminates under fair           *)
(* scheduling.  C27_OriginalBound is the bound as stated; C27_Bound counts *)
(* the one step every bracket is given before its first test, so that a    *)
(* bracket no wider than epsilon is finished after one step, not none.     *)
(***************************************************************************)
Width(br) == Abs(br[0].x - br[1].x)

\* ceil(log2(w / e)) for w > e, and 0 for w <= e: the least k with w <= e * 2^k.
RECURSIVE CeilLog2(_, _)
CeilLog2(w, e) == IF w <= e THEN 0 ELSE 1 + CeilLog2(w, 2 * e)

\* The brackets a bracket can be after exactly n steps, n >= 1, the driver
\* posting it again after each answer that does not finish it.
RECURSIVE AfterSteps(_, _)
AfterSteps(br, n) ==
    IF n < 1 THEN {}
    ELSE IF n = 1 THEN StepsOf("zero", br)
    ELSE UNION {StepsOf("zero", b) : b \in {x \in AfterSteps(br, n - 1) : ~ZeroDone(x)}}

WithinSteps(br, n) == {br} \cup UNION {AfterSteps(br, k) : k \in 1..n}

\* The zero brackets the posting loop has initialised in this phase.
PostedZeros ==
    CASE pc = "fz_init"                -> 0..(idx - 1)
      [] pc = "fz_post"                -> 0..idx
      [] pc \in {"fz_pop", "fz_check"} -> 0..m_order
      [] OTHER                         -> {}

C27_Halved ==
    \A w \in Workers :
        RootStepBy(w) =>
            LET br == m_zeros_state[wtag[w]]
                nb == m_zeros_state'[wtag[w]]
            IN  /\ 2 * nb[2].x \in {br[0].x + br[1].x - 1, br[0].x + br[1].x,
                                    br[0].x + br[1].x + 1}
                /\ \E k \in {0, 1} : nb[k] = nb[2] /\ nb[1 - k].x = br[1 - k].x
                /\ 2 * Width(nb) \in {Width(br) - 1, Width(br), Width(br) + 1}

C27_BoundedBy(bound(_)) ==
    \A i \in PostedZeros :
        /\ m_zeros_state[i] \in WithinSteps(first[i], bound(first[i]))
        /\ \A b \in AfterSteps(first[i], bound(first[i])) : ZeroDone(b)

ClaimedSteps(br) == CeilLog2(Width(br), m_epsilon)
TakenSteps(br) == IF ClaimedSteps(br) < 1 THEN 1 ELSE ClaimedSteps(br)

C27_OriginalBound == C27_BoundedBy(ClaimedSteps)
C27_Bound == C27_BoundedBy(TakenSteps)

C27_AsStated ==
    /\ [][C27_Halved]_vars
    /\ [](C27_OriginalBound)
    /\ (InFindZeros ~> FindZerosReturned)

C28_Classified ==
    \A w \in Workers :
        wpc[w] = "work" =>
            /\ InFindZeros => TagKind(wtag[w]) = "zero"
            /\ InFindExtrema => TagKind(wtag[w]) = "extremum"

\* The tags with a job in flight.
InFlight ==
    {m_questions[k] : k \in DOMAIN m_questions}
        \cup {m_answers[k] : k \in DOMAIN m_answers}
        \cup {wtag[w] : w \in {v \in Workers : wpc[v] = "work"}}

C28_AnswerToCome ==
    /\ pc = "fz_pop" =>
          \A i \in (0..m_order) \ done : i \in InFlight
    /\ pc = "fe_pop" =>
          \A i \in (0..(m_order + 1)) \ done : i + ExtremaTagBase \in InFlight

C28_EveryJobAnswered == C28_Classified /\ C28_AnswerToCome

(***************************************************************************)
(* C29. Extremum bracket invariant: for every extremum bracket initialised *)
(* with a.x < c.x < b.x, every worker step preserves a.x <= c.x <= b.x and *)
(* never increases b.x - a.x (the new bracket lies inside the old one);    *)
(* so each recorded control[i] lies in [zeros[i-1], zeros[i]], with -1 and *)
(* +1 as the outer bounds.                                                 *)
(***************************************************************************)
StrictlyOrdered(br) == br[0].x < br[2].x /\ br[2].x < br[1].x
Ordered(br) == br[0].x <= br[2].x /\ br[2].x <= br[1].x

C29_Step(w) ==
    LET i == ExtremumIndex(wtag[w])
        br == m_extrema_state[i]
        nb == m_extrema_state'[i]
    IN  (ExtremaStepBy(w) /\ StrictlyOrdered(first[i])) =>
            /\ Ordered(br)
            /\ Ordered(nb)
            /\ nb[1].x - nb[0].x <= br[1].x - br[0].x
            /\ br[0].x <= nb[0].x /\ nb[1].x <= br[1].x

C29_Control ==
    FindExtremaReturned =>
        \A i \in 0..(m_order + 1) :
            StrictlyOrdered(first[i]) =>
                /\ first[i][0].x = BracketLo(i) /\ first[i][1].x = BracketHi(i)
                /\ BracketLo(i) <= m_control[i] /\ m_control[i] <= BracketHi(i)

C29_ExtremumBracket ==
    /\ [][\A w \in Workers : C29_Step(w)]_vars
    /\ [](C29_Control)

\* find_extrema has returned with a control point strictly between the ends
\* of its bracket and away from the bracket's first c.x.
C29_Witness ==
    /\ FindExtremaReturned
    /\ \E i \in 0..(m_order + 1) :
          /\ StrictlyOrdered(first[i])
          /\ BracketLo(i) < m_control[i] /\ m_control[i] < BracketHi(i)
          /\ m_control[i] # first[i][2].x
          /\ m_extrema_state[i][1].x - m_extrema_state[i][0].x
                 < first[i][1].x - first[i][0].x

(***************************************************************************)
(* C30. do_step can return false only in a state where error > 0 and       *)
(* old_error # 0: never on the first call after do_init, where old_error   *)
(* is 0, and never when find_extrema observed an error of exactly 0, in    *)
(* which case it returns true (it goes on to find_zeros) and the driver    *)
(* loop continues.                                                         *)
(***************************************************************************)
DoStepReturns == pc = "converge" /\ pc' # "converge"
ReturnsFalse == DoStepReturns /\ pc' = "dtor_push"

C30_Return ==
    /\ ReturnsFalse => (m_error > 0 /\ old_error # 0 /\ iter > 0)
    /\ (DoStepReturns /\ iter = 0) => old_error = 0
    /\ (DoStepReturns /\ (m_error = 0 \/ old_error = 0)) => pc' = "fz_init"

C30_FalseOnlyOnRepeatedError == [][C30_Return]_vars

\* do_step has returned false on its second call, on the positive error its
\* first call had left.
C30_Witness ==
    /\ DoStepReturnedFalse
    /\ iter = 1
    /\ m_error > 0

\* The other case: find_extrema has observed an error of exactly 0, after a
\* call that had observed one too, and do_step has gone on to find_zeros.
C30_ExactFit == pc = "fz_init" /\ idx = 0 /\ m_error = 0 /\ iter = MaxIter

====
